---- MODULE Spec2Model ----
(***************************************************************************)
(* Model of the list resource of the shared shopping list worker           *)
(* (src/src/worker.js): the key-value store, the PUT/GET/DELETE handlers   *)
(* of /api/list/:token, the item normalizer and the merge of an incoming   *)
(* payload with the stored document.                                       *)
(*                                                                         *)
(* A JSON object is a TLA+ record whose DOMAIN holds exactly the fields    *)
(* that are present with a usable type; a field that is missing or of the  *)
(* wrong type is absent from the DOMAIN.  A pos is an integer count of     *)
(* 1/PosUnit steps, so that fractional positions of a payload can be       *)
(* written: the position n of the code is the value n * PosUnit here.      *)
(***************************************************************************)
EXTENDS Integers, Sequences, FiniteSets, TLC

VARIABLES kv, now, req

vars == <<kv, now, req>>

----------------------------------------------------------------------------
(* Bounds of the model *)

MaxItems == 2          \* longest items array of a PUT body
MaxVersion == 3        \* overlapping PUTs start while the stored version is below
MaxSerialVersion == 2  \* PUTs handled one at a time start while it is below
MaxClock == 2          \* last value of Date.now()
PosUnit == 2           \* one position step, in the unit pos values are counted in

Tokens == {"tok-0123456789abcdef"}
Clients == {"c1", "c2"}
Ids == {"a", "b", "c"}

NoDoc == [absent |-> TRUE]     \* kv.get(key) returned null

----------------------------------------------------------------------------
(* Helpers on sequences *)

Range(s) == {s[i] : i \in 1..Len(s)}

IdsOf(items) == {items[i].id : i \in 1..Len(items)}

Has(obj, f) == f \in DOMAIN obj

\* index of the entry of the map m (a sequence in insertion order) with key id, or 0
IndexOfId(m, id) ==
  IF \E i \in 1..Len(m) : m[i].id = id
    THEN CHOOSE i \in 1..Len(m) : m[i].id = id
    ELSE 0

\* mutant: every set adds an entry
MapSet_Appends(m, item) == Append(m, item)

\* Map.prototype.set: an existing key keeps its place in the iteration order
MapSet(m, item) ==
  IF IndexOfId(m, item.id) # 0
    THEN [m EXCEPT ![IndexOfId(m, item.id)] = item]
    ELSE Append(m, item)

\* Map.prototype.get
MapGet(m, id) == m[IndexOfId(m, id)]

MapHas(m, id) == IndexOfId(m, id) # 0

----------------------------------------------------------------------------
(* normalizeItem, worker.js 366-402 *)

\* item.tags filtered to the non-empty strings, [] when tags is not an array
normalizeTags(item) ==
  IF Has(item, "tags")
    THEN SelectSeq(item.tags, LAMBDA tag : tag # "")
    ELSE <<>>

\* an item of an array that is not an object: null, a number, a string
Primitive == [primitive |-> TRUE]

\* the message of the Error normalizeItem throws, "" when it returns
normalizeError(item) ==
  IF item = Primitive THEN "Invalid item structure"
  ELSE IF ~Has(item, "id") \/ (Has(item, "id") /\ item.id = "") THEN "Item missing id"
  ELSE IF ~Has(item, "label") THEN "Item missing label"
  ELSE IF ~Has(item, "checked") THEN "Item missing checked state"
  ELSE ""

\* mutant: every normalized item is stamped with the time of the request
normalizeItem_AlwaysStamps(item, fallbackPos, t) ==
  [ id         |-> item.id,
    label      |-> item.label,
    checked    |-> item.checked,
    tags       |-> normalizeTags(item),
    pos        |-> IF Has(item, "pos") THEN item.pos ELSE fallbackPos,
    updated_at |-> t ]

\* the record normalizeItem returns for an item it accepts, at time t
normalizeItem(item, fallbackPos, t) ==
  [ id         |-> item.id,
    label      |-> item.label,
    checked    |-> item.checked,
    tags       |-> normalizeTags(item),
    pos        |-> IF Has(item, "pos") THEN item.pos ELSE fallbackPos,
    updated_at |-> IF Has(item, "updated_at") /\ item.updated_at > 0
                     THEN item.updated_at ELSE t ]

\* number of leading items of the array that normalizeItem accepts
RECURSIVE ValidPrefixLen(_)
ValidPrefixLen(items) ==
  IF items = <<>> THEN 0
  ELSE IF normalizeError(Head(items)) # "" THEN 0
  ELSE 1 + ValidPrefixLen(Tail(items))

\* items.forEach((item, index) => map.set(id, normalizeItem(item, index)))
\* run over the first n items: the Map built so far
RECURSIVE NormalizeInto(_, _, _)
NormalizeInto(items, n, t) ==
  IF n = 0 THEN <<>>
  ELSE MapSet(NormalizeInto(items, n - 1, t),
              normalizeItem(items[n], (n - 1) * PosUnit, t))

----------------------------------------------------------------------------
(* The merge of handlePut, worker.js 285-318 *)

\* mutant: a tie keeps the stored record
RECURSIVE ResolveIncoming_TieKeepsStored(_, _, _)
ResolveIncoming_TieKeepsStored(incoming, existing, deletedSet) ==
  IF incoming = <<>> THEN <<>>
  ELSE LET inc == Head(incoming)
           rest == ResolveIncoming_TieKeepsStored(Tail(incoming), existing, deletedSet)
       IN IF inc.id \in deletedSet THEN rest
          ELSE IF MapHas(existing, inc.id)
            THEN <<IF inc.updated_at > MapGet(existing, inc.id).updated_at
                     THEN inc ELSE MapGet(existing, inc.id)>> \o rest
          ELSE <<inc>> \o rest

\* mutant: the record of the payload always wins
RECURSIVE ResolveIncoming_IncomingWins(_, _, _)
ResolveIncoming_IncomingWins(incoming, existing, deletedSet) ==
  IF incoming = <<>> THEN <<>>
  ELSE IF Head(incoming).id \in deletedSet
    THEN ResolveIncoming_IncomingWins(Tail(incoming), existing, deletedSet)
  ELSE <<Head(incoming)>>
         \o ResolveIncoming_IncomingWins(Tail(incoming), existing, deletedSet)

\* mutant: the deletion set is only applied to the stored items
RECURSIVE ResolveIncoming_KeepsDeleted(_, _, _)
ResolveIncoming_KeepsDeleted(incoming, existing, deletedSet) ==
  IF incoming = <<>> THEN <<>>
  ELSE LET inc == Head(incoming)
           rest == ResolveIncoming_KeepsDeleted(Tail(incoming), existing, deletedSet)
       IN IF MapHas(existing, inc.id)
            THEN <<IF inc.updated_at >= MapGet(existing, inc.id).updated_at
                     THEN inc ELSE MapGet(existing, inc.id)>> \o rest
          ELSE <<inc>> \o rest

\* first loop (289-306): the records pushed for the ids of the payload
RECURSIVE ResolveIncoming(_, _, _)
ResolveIncoming(incoming, existing, deletedSet) ==
  IF incoming = <<>> THEN <<>>
  ELSE LET inc == Head(incoming)
           rest == ResolveIncoming(Tail(incoming), existing, deletedSet)
       IN IF inc.id \in deletedSet THEN rest
          ELSE IF MapHas(existing, inc.id)
            THEN <<IF inc.updated_at >= MapGet(existing, inc.id).updated_at
                     THEN inc ELSE MapGet(existing, inc.id)>> \o rest
          ELSE <<inc>> \o rest

\* mutant: a payload with items replaces the stored list
PreserveExisting_OnlyIfEmpty(incoming, existing, deletedSet) ==
  IF incoming = <<>>
    THEN SelectSeq(existing, LAMBDA e : e.id \notin deletedSet)
    ELSE <<>>

\* mutant: the items of the payload replace the stored list
PreserveExisting_Dropped(incoming, existing, deletedSet) == <<>>

\* second loop (308-313): stored items the payload neither names nor deletes
PreserveExisting(incoming, existing, deletedSet) ==
  SelectSeq(existing,
            LAMBDA e : e.id \notin IdsOf(incoming) /\ e.id \notin deletedSet)

\* mutant: the sort puts a record before the records of equal pos
RECURSIVE InsertByPos_TieGoesFirst(_, _)
InsertByPos_TieGoesFirst(sorted, x) ==
  IF sorted = <<>> THEN <<x>>
  ELSE IF Head(sorted).pos < x.pos
    THEN <<Head(sorted)>> \o InsertByPos_TieGoesFirst(Tail(sorted), x)
  ELSE <<x>> \o sorted

\* Array.prototype.sort with (a, b) => a.pos - b.pos is stable: x goes after
\* every element whose pos is not greater
RECURSIVE InsertByPos(_, _)
InsertByPos(sorted, x) ==
  IF sorted = <<>> THEN <<x>>
  ELSE IF Head(sorted).pos <= x.pos
    THEN <<Head(sorted)>> \o InsertByPos(Tail(sorted), x)
  ELSE <<x>> \o sorted

RECURSIVE SortByPos(_)
SortByPos(items) ==
  IF items = <<>> THEN <<>>
  ELSE InsertByPos(SortByPos(SubSeq(items, 1, Len(items) - 1)), items[Len(items)])

\* mergedItems.forEach((item, index) => { item.pos = index })
Renumber(items) ==
  [i \in 1..Len(items) |-> [items[i] EXCEPT !.pos = (i - 1) * PosUnit]]

MergeItems(incoming, existing, deletedSet) ==
  Renumber(SortByPos(ResolveIncoming(incoming, existing, deletedSet)
                     \o PreserveExisting(incoming, existing, deletedSet)))

----------------------------------------------------------------------------
(* handlePut, worker.js 238-333 *)

createDefaultDocument(t) ==
  [title |-> "Shopping", items |-> <<>>, version |-> 0, updated_at |-> t]

\* mutant: a body with an empty items array is refused
ValidStructure_NonEmptyItems(body) ==
  Has(body, "title") /\ Has(body, "items") /\ body.items # <<>>

\* 247: the body is an object with a string title and an items array
ValidStructure(body) == Has(body, "title") /\ Has(body, "items")

\* 251-253, 285: the set of the non-empty strings of body.deletedItemIds
DeletedSet(body) ==
  IF Has(body, "deletedItemIds")
    THEN {id \in Range(body.deletedItemIds) : id # ""}
    ELSE {}

\* 255-263: the Map of the normalized items of the body
IncomingItems(body, t) == NormalizeInto(body.items, Len(body.items), t)

ItemsValid(body) == ValidPrefixLen(body.items) = Len(body.items)

\* 265-272: the stored value parsed, or the default document
ExistingDoc(stored, t) ==
  IF stored = NoDoc THEN createDefaultDocument(t)
  ELSE [items   |-> IF Has(stored, "items") THEN stored.items ELSE <<>>,
        version |-> IF Has(stored, "version") THEN stored.version ELSE 0] @@ stored

\* 274-283: the Map of the stored items; a throw of normalizeItem ends the
\* forEach and leaves the Map as it was built so far
ExistingItems(existingDoc, t) ==
  NormalizeInto(existingDoc.items, ValidPrefixLen(existingDoc.items), t)

\* mutant: the version only moves when the items change
MergedDoc_VersionOnChange(body, existingDoc, t) ==
  LET items == MergeItems(IncomingItems(body, t), ExistingItems(existingDoc, t),
                          DeletedSet(body))
  IN [ title      |-> body.title,
       items      |-> items,
       version    |-> IF items = existingDoc.items
                        THEN existingDoc.version ELSE existingDoc.version + 1,
       updated_at |-> t ]

\* mutant: a list that has been written twice takes no new ids
MergedDoc_NoLateAdditions(body, existingDoc, t) ==
  LET incoming == IF existingDoc.version >= 2
                    THEN SelectSeq(IncomingItems(body, t),
                                   LAMBDA it : it.id \in IdsOf(existingDoc.items))
                    ELSE IncomingItems(body, t)
  IN [ title      |-> body.title,
       items      |-> MergeItems(incoming, ExistingItems(existingDoc, t),
                                 DeletedSet(body)),
       version    |-> existingDoc.version + 1,
       updated_at |-> t ]

\* mutant: the title of the stored document is kept
MergedDoc_KeepsStoredTitle(body, existingDoc, t) ==
  [ title      |-> IF Has(existingDoc, "title") THEN existingDoc.title ELSE body.title,
    items      |-> MergeItems(IncomingItems(body, t), ExistingItems(existingDoc, t),
                              DeletedSet(body)),
    version    |-> existingDoc.version + 1,
    updated_at |-> t ]

\* 285-328: the document that is written and returned
MergedDoc(body, existingDoc, t) ==
  [ title      |-> body.title,
    items      |-> MergeItems(IncomingItems(body, t), ExistingItems(existingDoc, t),
                              DeletedSet(body)),
    version    |-> existingDoc.version + 1,
    updated_at |-> t ]

\* the version a PUT would read
StoredVersion(stored) == IF Has(stored, "version") THEN stored.version ELSE 0

Idle == [pc |-> "idle"]

\* a client sends a request when none of its own is being handled
Ready(c) == req[c].pc # "read"

\* mutant: the items before the bad one are merged and stored
PutReject_CommitsValid(c, tok, body) ==
  /\ Ready(c)
  /\ ~(ValidStructure(body) /\ ItemsValid(body))
  /\ req' = [req EXCEPT ![c] =
       [pc |-> "done", method |-> "PUT", token |-> tok, body |-> body,
        status |-> 400, response |-> [error |-> "Invalid item data"]]]
  /\ kv' = IF ValidStructure(body)
             THEN [kv EXCEPT ![tok] =
                    MergedDoc([body EXCEPT !.items = SubSeq(body.items, 1, ValidPrefixLen(body.items))],
                              ExistingDoc(kv[tok], now), now)]
             ELSE kv
  /\ UNCHANGED now

\* 238-263: the request is answered 400 before the store is read
PutReject(c, tok, body) ==
  /\ Ready(c)
  /\ ~(ValidStructure(body) /\ ItemsValid(body))
  /\ req' = [req EXCEPT ![c] =
       [pc |-> "done", method |-> "PUT", token |-> tok, body |-> body,
        status |-> 400,
        response |-> [error |-> IF ~ValidStructure(body)
                                  THEN "Invalid document structure"
                                  ELSE normalizeError(body.items[ValidPrefixLen(body.items) + 1])]]]
  /\ UNCHANGED <<kv, now>>

\* mutant: a body whose baseVersion is behind the stored version is refused
PutRead_RejectsStale(c, tok, body) ==
  /\ Ready(c)
  /\ ValidStructure(body) /\ ItemsValid(body)
  /\ req' = [req EXCEPT ![c] =
       IF Has(body, "baseVersion") /\ body.baseVersion < ExistingDoc(kv[tok], now).version
         THEN [pc |-> "done", method |-> "PUT", token |-> tok, body |-> body,
               existing |-> ExistingDoc(kv[tok], now),
               status |-> 409, response |-> [error |-> "Version conflict"]]
         ELSE [pc |-> "read", method |-> "PUT", token |-> tok, body |-> body,
               existing |-> ExistingDoc(kv[tok], now),
               merged |-> MergedDoc(body, ExistingDoc(kv[tok], now), now)]]
  /\ UNCHANGED <<kv, now>>

\* 238-328: the body is validated and normalized, kv.get answers and the
\* merged document is built
PutRead(c, tok, body) ==
  /\ Ready(c)
  /\ ValidStructure(body) /\ ItemsValid(body)
  /\ req' = [req EXCEPT ![c] =
       [pc |-> "read", method |-> "PUT", token |-> tok, body |-> body,
        existing |-> ExistingDoc(kv[tok], now),
        merged |-> MergedDoc(body, ExistingDoc(kv[tok], now), now)]]
  /\ UNCHANGED <<kv, now>>

\* mutant: the write merges again when the store has changed since the read
PutWrite_MergesAgain(c) ==
  /\ req[c].pc = "read"
  /\ kv' = [kv EXCEPT ![req[c].token] =
       MergedDoc(req[c].body, ExistingDoc(kv[req[c].token], now), now)]
  /\ req' = [req EXCEPT ![c] =
       [pc |-> "done", method |-> "PUT", token |-> req[c].token, body |-> req[c].body,
        existing |-> ExistingDoc(kv[req[c].token], now),
        status |-> 200,
        response |-> MergedDoc(req[c].body, ExistingDoc(kv[req[c].token], now), now)]]
  /\ UNCHANGED now

\* 330-332: kv.put stores the merged document and the request is answered
PutWrite(c) ==
  /\ req[c].pc = "read"
  /\ kv' = [kv EXCEPT ![req[c].token] = req[c].merged]
  /\ req' = [req EXCEPT ![c] =
       [pc |-> "done", method |-> "PUT", token |-> req[c].token, body |-> req[c].body,
        existing |-> req[c].existing,
        status |-> 200, response |-> req[c].merged]]
  /\ UNCHANGED now

\* mutant: the version of the stored document is not passed on
Get_DropsVersion(c, tok) ==
  /\ Ready(c)
  /\ req' = [req EXCEPT ![c] =
       [pc |-> "done", method |-> "GET", token |-> tok,
        status |-> 200, response |-> [ExistingDoc(kv[tok], now) EXCEPT !.version = 0]]]
  /\ UNCHANGED <<kv, now>>

\* mutant: a GET of a missing list stores the default document
Get_CreatesDefault(c, tok) ==
  /\ Ready(c)
  /\ req' = [req EXCEPT ![c] =
       [pc |-> "done", method |-> "GET", token |-> tok,
        status |-> 200, response |-> ExistingDoc(kv[tok], now)]]
  /\ kv' = [kv EXCEPT ![tok] = ExistingDoc(kv[tok], now)]
  /\ UNCHANGED now

\* handleGet, worker.js 216-232
Get(c, tok) ==
  /\ Ready(c)
  /\ req' = [req EXCEPT ![c] =
       [pc |-> "done", method |-> "GET", token |-> tok,
        status |-> 200, response |-> ExistingDoc(kv[tok], now)]]
  /\ UNCHANGED <<kv, now>>

\* mutant: deleting a list that is not stored is an error
Delete_MissingIs404(c, tok) ==
  /\ Ready(c)
  /\ kv' = [kv EXCEPT ![tok] = NoDoc]
  /\ req' = [req EXCEPT ![c] =
       [pc |-> "done", method |-> "DELETE", token |-> tok,
        status |-> IF kv[tok] = NoDoc THEN 404 ELSE 200,
        response |-> IF kv[tok] = NoDoc THEN [error |-> "Not found"] ELSE [ok |-> TRUE]]]
  /\ UNCHANGED now

\* mutant: deleting a list empties the whole store
Delete_ClearsStore(c, tok) ==
  /\ Ready(c)
  /\ kv' = [k \in DOMAIN kv |-> NoDoc]
  /\ req' = [req EXCEPT ![c] =
       [pc |-> "done", method |-> "DELETE", token |-> tok,
        status |-> 200, response |-> [ok |-> TRUE]]]
  /\ UNCHANGED now

\* handleDelete, worker.js 339-342
Delete(c, tok) ==
  /\ Ready(c)
  /\ kv' = [kv EXCEPT ![tok] = NoDoc]
  /\ req' = [req EXCEPT ![c] =
       [pc |-> "done", method |-> "DELETE", token |-> tok,
        status |-> 200, response |-> [ok |-> TRUE]]]
  /\ UNCHANGED now

\* the client has taken the response
Return(c) ==
  /\ req[c].pc = "done"
  /\ req' = [req EXCEPT ![c] = Idle]
  /\ UNCHANGED <<kv, now>>

\* time passes between two calls of Date.now()
Tick ==
  /\ now < MaxClock
  /\ now' = now + 1
  /\ UNCHANGED <<kv, req>>

Init ==
  /\ kv = [tok \in Tokens |-> NoDoc]
  /\ now = 1
  /\ req = [c \in Clients |-> Idle]

----------------------------------------------------------------------------
(* Requests handled one at a time, with any body.  The clock is read     *)
(* once per request, so it only needs to advance between two requests.   *)

\* The items of a body.  Every optional field is missing in the items with
\* the label "milk"; the other positions are negative and fractional, and a
\* missing position falls back to the index, which meets the position of a
\* stored item; a missing timestamp becomes the time of the request, so
\* that timestamps are older, equal and newer than stored ones, with the
\* same and with another content.  The last item has no id.
RawItems ==
  { [id |-> id, label |-> "milk", checked |-> FALSE] : id \in {"a", "b"} }
    \cup { [id |-> "a", label |-> "eggs", checked |-> TRUE,
            tags |-> <<"", "woolies">>, pos |-> -PosUnit, updated_at |-> 1],
           [id |-> "b", label |-> "eggs", checked |-> TRUE,
            tags |-> <<"", "woolies">>, pos |-> 1, updated_at |-> 2],
           [label |-> "milk", checked |-> FALSE] }

ItemArrays == UNION {[1..n -> RawItems] : n \in 0..MaxItems}

Bodies ==
  { [title |-> "List", items |-> its] : its \in ItemArrays }
    \cup { [title |-> "List", items |-> its, deletedItemIds |-> <<"", "a">>] :
             its \in ItemArrays }
    \cup { [items |-> <<>>] }

NextSerial ==
  \/ \E tok \in Tokens, body \in Bodies :
       /\ req["c1"].pc = "idle"
       /\ StoredVersion(kv[tok]) < MaxSerialVersion
       /\ PutRead("c1", tok, body)
  \/ \E tok \in Tokens, body \in Bodies :
       req["c1"].pc = "idle" /\ PutReject("c1", tok, body)
  \/ PutWrite("c1")
  \/ \E tok \in Tokens : req["c1"].pc = "idle" /\ Get("c1", tok)
  \/ \E tok \in Tokens : req["c1"].pc = "idle" /\ Delete("c1", tok)
  \/ Return("c1")
  \/ req["c1"].pc = "idle" /\ Tick

SpecSerial == Init /\ [][NextSerial]_vars

----------------------------------------------------------------------------
(* Polling clients whose requests overlap *)

\* the list a client holds: the items of the last document it was answered
View(c) ==
  IF req[c].pc = "done" /\ req[c].status = 200 /\ req[c].method \in {"GET", "PUT"}
    THEN req[c].response.items
    ELSE <<>>

\* item ids are generated by the client that adds the item
OwnIds(c) == IF c = "c1" THEN {"a", "b"} ELSE {"c"}

\* the items a client writes, stamped with the client's own clock, which
\* may be behind the clock of the client that added the item
NewItem(id) ==
  [id |-> id, label |-> "milk", checked |-> FALSE, tags |-> <<>>, updated_at |-> 3]

EditTimes == {1, 2, 4}

\* the item both clients edit: the one the shared list starts with
SharedId == "a"

EditedItem(item, ts) ==
  [item EXCEPT !.checked = TRUE, !.updated_at = ts]

\* the bodies a client sends: the list it holds with one item added, with
\* the item the list started with edited, or without one item that it
\* lists as deleted
AddBodies(c) ==
  { [title |-> "List", items |-> Append(View(c), NewItem(id)), deletedItemIds |-> <<>>] :
      id \in OwnIds(c) \ IdsOf(View(c)) }

EditBodies(c) ==
  { [title |-> "List",
     items |-> [View(c) EXCEPT ![i] = EditedItem(View(c)[i], ts)],
     deletedItemIds |-> <<>>] :
       i \in {k \in 1..Len(View(c)) : View(c)[k].id = SharedId},
       ts \in EditTimes }

RemoveBodies(c) ==
  { [title |-> "List",
     items |-> SelectSeq(View(c), LAMBDA it : it.id # id),
     deletedItemIds |-> <<id>>] : id \in IdsOf(View(c)) }

ClientBodies(c) == AddBodies(c) \cup EditBodies(c) \cup RemoveBodies(c)

\* the list shared by the two clients holds the item that client c1 added
\* with its first PUT, answered at time 1
FirstBody ==
  [title |-> "List", items |-> <<NewItem(SharedId)>>, deletedItemIds |-> <<>>]

FirstDoc == MergedDoc(FirstBody, createDefaultDocument(1), 1)

InitShared ==
  /\ kv = [tok \in Tokens |-> FirstDoc]
  /\ now = 1
  /\ req = [c \in Clients |->
       IF c = "c1"
         THEN [pc |-> "done", method |-> "PUT", token |-> CHOOSE tok \in Tokens : TRUE,
               body |-> FirstBody, existing |-> createDefaultDocument(1),
               status |-> 200, response |-> FirstDoc]
         ELSE Idle]

Next ==
  \/ \E c \in Clients, tok \in Tokens :
       /\ StoredVersion(kv[tok]) < MaxVersion
       /\ \E body \in ClientBodies(c) : PutRead(c, tok, body)
  \/ \E c \in Clients : PutWrite(c)
  \/ \E c \in Clients, tok \in Tokens : Get(c, tok)

Spec == InitShared /\ [][Next]_vars

----------------------------------------------------------------------------
(* fetch, worker.js 94-210: the routing of a list request *)

\* the characters of the path segments the requests use
Chars(seg) ==
  CASE seg = "tok-0123456789abcdef" ->
         <<"t","o","k","-","0","1","2","3","4","5","6","7","8","9","a","b","c","d","e","f">>
    [] seg = "tok-0123456789a" ->
         <<"t","o","k","-","0","1","2","3","4","5","6","7","8","9","a">>
    [] seg = "tok.0123456789abcdef" ->
         <<"t","o","k",".","0","1","2","3","4","5","6","7","8","9","a","b","c","d","e","f">>
    [] seg = "tok_FEDCBA9876543210" ->
         <<"t","o","k","_","F","E","D","C","B","A","9","8","7","6","5","4","3","2","1","0">>
    [] OTHER -> <<>>

TokenChars ==
  { "a","b","c","d","e","f","g","h","i","j","k","l","m","n","o","p","q","r",
    "s","t","u","v","w","x","y","z",
    "A","B","C","D","E","F","G","H","I","J","K","L","M","N","O","P","Q","R",
    "S","T","U","V","W","X","Y","Z",
    "0","1","2","3","4","5","6","7","8","9","_","-" }

MinTokenLen == 16

\* /^[a-zA-Z0-9_-]{16,}$/.test(token)
TOKEN_PATTERN(token) ==
  /\ Len(Chars(token)) >= MinTokenLen
  /\ \A i \in 1..Len(Chars(token)) : Chars(token)[i] \in TokenChars

\* a pathname is the sequence of its segments: "/api/list/x" is <<"api", "list", "x">>
NoMatch == ""

\* mutant: the last segment is taken as the token, whatever precedes it
PathToken_LastSegment(path) ==
  IF Len(path) >= 1 THEN path[Len(path)] ELSE NoMatch

\* url.pathname.match(/^\/api\/list\/([^/]+)$/): the token, or NoMatch
PathToken(path) ==
  IF Len(path) = 3 /\ path[1] = "api" /\ path[2] = "list" /\ path[3] # ""
    THEN path[3] ELSE NoMatch

\* a request body that request.json() does not parse
NotJson == [notjson |-> TRUE]

\* a response with an error message, given before any handler is entered or
\* by handlePut before it parses the body
Reject(c, request, status, error) ==
  /\ req[c].pc = "idle"
  /\ req' = [req EXCEPT ![c] =
       [pc |-> "done", method |-> request.method, request |-> request,
        status |-> status, response |-> [error |-> error]]]
  /\ UNCHANGED <<kv, now>>

\* one list request from its arrival to its first await on the store
fetch(c, request) ==
  LET token == PathToken(request.path) IN
  \/ /\ token = NoMatch
     /\ Reject(c, request, 404, "Invalid path")
  \/ /\ token # NoMatch /\ ~TOKEN_PATTERN(token)
     /\ Reject(c, request, 400, "Invalid token format")
  \/ /\ token # NoMatch /\ TOKEN_PATTERN(token)
     /\ req[c].pc = "idle"
     /\ \/ request.method = "GET" /\ Get(c, token)
        \/ request.method = "PUT" /\ request.body = NotJson
             /\ Reject(c, request, 400, "Invalid JSON")
        \/ request.method = "PUT" /\ request.body # NotJson
             /\ PutReject(c, token, request.body)
        \/ request.method = "PUT" /\ request.body # NotJson
             /\ StoredVersion(kv[token]) < MaxSerialVersion
             /\ PutRead(c, token, request.body)
        \/ request.method = "DELETE" /\ Delete(c, token)
        \/ request.method \notin {"GET", "PUT", "DELETE"}
             /\ Reject(c, request, 405, "Method not allowed")

\* the items of the bodies: two that normalize, and one for every way
\* normalizeItem throws
ApiItems ==
  { [id |-> "a", label |-> "milk", checked |-> FALSE],
    [id |-> "b", label |-> "eggs", checked |-> TRUE, updated_at |-> 1],
    Primitive,
    [label |-> "milk", checked |-> FALSE],
    [id |-> "", label |-> "milk", checked |-> FALSE],
    [id |-> "a", checked |-> FALSE],
    [id |-> "a", label |-> "milk"] }

\* the arrays with at most one item that fails, at every index
ApiArrays ==
  { a \in UNION {[1..n -> ApiItems] : n \in 0..MaxItems} :
      Cardinality({i \in 1..Len(a) : normalizeError(a[i]) # ""}) <= 1 }

\* the baseVersion values a client sends: none, the version of an empty
\* list, and one above every stored version
BaseVersions == {0, MaxSerialVersion + 1}

ApiBodies ==
  { [title |-> "List", items |-> its] : its \in ApiArrays }
    \cup { [title |-> "List", items |-> its, baseVersion |-> bv, deletedItemIds |-> <<>>] :
             its \in {a \in ApiArrays : Len(a) = 1}, bv \in BaseVersions }
    \cup { [items |-> <<>>], [title |-> "List"], [jsonnull |-> TRUE], NotJson }

ApiPaths ==
  { <<"api", "list", seg>> :
      seg \in {"tok-0123456789abcdef", "tok-0123456789a", "tok.0123456789abcdef", ""} }
    \cup { <<"api", "list">>, <<"api", "invalid", "path">>,
           <<"api", "list", "tok-0123456789abcdef", "items">> }

ListPath == <<"api", "list", "tok-0123456789abcdef">>

\* the requests of the first client; the second one reads and deletes
ApiRequests ==
  [c \in Clients |->
     IF c = "c1"
       THEN { [method |-> "PUT", path |-> ListPath, body |-> b] : b \in ApiBodies }
            \cup { [method |-> "PUT", path |-> p, body |-> NotJson] : p \in ApiPaths }
            \cup { [method |-> m, path |-> p] :
                     m \in {"GET", "DELETE", "POST"}, p \in ApiPaths }
       ELSE { [method |-> m, path |-> ListPath] : m \in {"GET", "DELETE"} }]

NextApi ==
  \/ \E c \in Clients :
       /\ req[c].pc = "idle"
       /\ \A d \in Clients : req[d].pc # "read"
       /\ \E request \in ApiRequests[c] : fetch(c, request)
  \/ \E c \in Clients : PutWrite(c)
  \/ \E c \in Clients : Return(c)
  \/ (\A c \in Clients : req[c].pc = "idle") /\ Tick

SpecApi == Init /\ [][NextApi]_vars

----------------------------------------------------------------------------
(* Stored values that handlePut did not write *)

\* a stored text that JSON.parse rejects, and the stored text "null"
Unparseable == [unparseable |-> TRUE]

JsonNull == [jsonnull |-> TRUE]

\* JSON.parse(stored) throws a SyntaxError, or the first property access on
\* its result throws a TypeError (216-225, 265-269)
Throws(stored) == stored \in {Unparseable, JsonNull}

\* the exception leaves the handler and is caught by fetch (205-208): GET,
\* and PUT once its body has passed the validation that precedes kv.get
StoreError(c, tok, request) ==
  /\ req[c].pc = "idle"
  /\ Throws(kv[tok])
  /\ request.method \in {"GET", "PUT"}
  /\ request.method = "PUT" =>
       ValidStructure(request.body) /\ ItemsValid(request.body)
  /\ req' = [req EXCEPT ![c] =
       [pc |-> "done", method |-> request.method, token |-> tok, request |-> request,
        status |-> 500, response |-> [error |-> "Internal server error"]]]
  /\ UNCHANGED <<kv, now>>

StoredA ==
  [id |-> "a", label |-> "milk", checked |-> FALSE, tags |-> <<>>,
   pos |-> 0, updated_at |-> 1]

StoredB ==
  [id |-> "b", label |-> "eggs", checked |-> TRUE, tags |-> <<>>,
   pos |-> 2 * PosUnit, updated_at |-> 1]

\* stored items that fail normalization
CorruptItems == { Primitive, [id |-> "x", checked |-> FALSE, pos |-> PosUnit] }

\* what the store may hold when it was written from outside the worker
StoredValues ==
  { NoDoc, Unparseable, JsonNull,
    [title |-> "Old", version |-> 1, updated_at |-> 1],
    [title |-> "Old", items |-> <<StoredA>>, updated_at |-> 1],
    [title |-> "Old", items |-> <<StoredA, StoredB>>, version |-> 1, updated_at |-> 1] }
    \cup { [title |-> "Old", items |-> its, version |-> 1, updated_at |-> 1] :
             its \in { <<StoredA, bad, StoredB>> : bad \in CorruptItems }
                       \cup { <<bad, StoredA>> : bad \in CorruptItems }
                       \cup { <<StoredA, bad>> : bad \in CorruptItems } }

StoredRequests ==
  { [method |-> "PUT", path |-> ListPath, body |-> b] :
      b \in { [title |-> "List", items |-> <<>>],
              [title |-> "List", items |-> <<>>, deletedItemIds |-> <<"a">>],
              [title |-> "List",
               items |-> <<[id |-> "c", label |-> "rice", checked |-> FALSE]>>],
              [title |-> "List",
               items |-> <<[id |-> "b", label |-> "rice", checked |-> FALSE]>>],
              [title |-> "List", items |-> <<Primitive>>] } }
    \cup { [method |-> "GET", path |-> ListPath] }

InitStored ==
  /\ kv \in [Tokens -> StoredValues]
  /\ now = 1
  /\ req = [c \in Clients |-> Idle]

NextStored ==
  \/ \E request \in StoredRequests :
       /\ req["c1"].pc = "idle"
       /\ ~Throws(kv[PathToken(request.path)])
       /\ request.method = "PUT" =>
            ExistingDoc(kv[PathToken(request.path)], now).version < MaxSerialVersion
       /\ fetch("c1", request)
  \/ \E request \in StoredRequests :
       StoreError("c1", PathToken(request.path), request)
  \/ PutWrite("c1")
  \/ Return("c1")
  \/ req["c1"].pc = "idle" /\ Tick

SpecStored == InitStored /\ [][NextStored]_vars

----------------------------------------------------------------------------
(* POST /api/generate: suggestions from the AI collaborator *)

\* models tried by generateWithFallbacks: the default and its two fallbacks
NumModels == 3

\* largest number of specials getAllSpecials returns
MaxSpecials == 1

GeneratePath == <<"api", "generate">>

\* String.prototype.trim on the prompts and labels of the requests
trim(s) ==
  CASE s = "  " -> ""
    [] s = " rice " -> "rice"
    [] OTHER -> s

Label65 == "abcdefghijklmnopqrstuvwxyzabcdefghijklmnopqrstuvwxyzabcdefghijklm"

Label64 == "abcdefghijklmnopqrstuvwxyzabcdefghijklmnopqrstuvwxyzabcdefghijkl"

\* slice(0, 64) on the labels of the answers: all but Label65 are shorter
slice64(s) == IF s = Label65 THEN Label64 ELSE s

\* the first allowed tag contained in the tag, compared in lower case
getAllowedTag(tags) ==
  IF tags = <<>> THEN "Woolies"
  ELSE CASE tags[1] = "coles" -> "Coles"
         [] tags[1] = "ALDI store" -> "ALDI"
         [] OTHER -> "Woolies"

\* the 400 responses of handleGenerate, "" when the body passes (583-603)
GenerateError(body) ==
  IF body = NotJson THEN "Invalid JSON"
  ELSE IF ~(Has(body, "prompt") /\ trim(body.prompt) # "")
    THEN "Missing or invalid prompt"
  ELSE IF ~(Has(body, "token") /\ body.token # "") THEN "Missing token"
  ELSE IF ~TOKEN_PATTERN(body.token) THEN "Invalid token format"
  ELSE ""

useSpecials(body) == Has(body, "useSpecials") /\ body.useSpecials

\* the text is a JSON object with an items array whose labels are strings
safeJsonParseLLMOutput(text) ==
  IF ~Has(text, "json") THEN [error |-> "Invalid JSON"]
  ELSE IF ~Has(text.json, "items") THEN [error |-> "Invalid JSON"]
  ELSE IF \E i \in 1..Len(text.json.items) : ~Has(text.json.items[i], "label")
    THEN [error |-> "Invalid JSON"]
  ELSE text.json

\* identifiers handed out by crypto.randomUUID, one for each suggestion
UUIDs == <<"uuid-1", "uuid-2">>

RECURSIVE WithLabel(_)
\* filter(item => item.label && typeof item.label === 'string')
WithLabel(items) ==
  IF items = <<>> THEN <<>>
  ELSE IF Head(items).label # "" THEN <<Head(items)>> \o WithLabel(Tail(items))
  ELSE WithLabel(Tail(items))

\* the suggestions of a parsed answer (565-574)
safeParseList(parsed, t) ==
  LET kept == WithLabel(parsed.items) IN
  [index \in 1..Len(kept) |->
     [id |-> UUIDs[index],
      label |-> slice64(trim(kept[index].label)),
      tags |-> <<getAllowedTag(IF Has(kept[index], "tags")
                                 THEN kept[index].tags ELSE <<>>)>>,
      checked |-> TRUE,
      pos |-> (index - 1) * PosUnit,
      updated_at |-> t]]

\* enhanceWithCatalogPrices: the items with a catalog match carry a price
WithPrice(items) == [index \in 1..Len(items) |-> [price |-> 1] @@ items[index]]

\* the catch of handleGenerate (678-688); the texts of lines 681 and 685 are
\* Japanese for "AI generation timed out" and "AI generation failed"
GenerateCatch(error) ==
  IF error.name = "AbortError"
    THEN [status |-> 504, response |-> [error |-> "AI generation timed out"]]
  ELSE [status |-> 500,
        response |-> [error |-> "AI generation failed", details |-> error.message]]

\* the response to an answer of the upstream service (642-675)
GenerateAnswer(data, body, specials, priced, t) ==
  IF ~Has(data, "content")
    THEN [status |-> 502, response |-> [error |-> "Invalid AI response"]]
  ELSE LET parsed == safeJsonParseLLMOutput(data.content) IN
    IF Has(parsed, "error")
      THEN GenerateCatch([name |-> "Error", message |-> parsed.error])
    ELSE LET normalizedItems == safeParseList(parsed, t)
             enhancedItems ==
               IF useSpecials(body) /\ specials > 0 /\ priced
                 THEN WithPrice(normalizedItems) ELSE normalizedItems
         IN [status |-> 200,
             response |->
               [status |-> "ok",
                suggestions |-> enhancedItems,
                specialsUsed |-> useSpecials(body) /\ specials > 0,
                specialsCount |-> specials,
                pricesIncluded |->
                  \E i \in 1..Len(enhancedItems) : Has(enhancedItems[i], "price")]]

\* the call of callOpenRouter that has just settled: the model it went to
\* and how it ended
Called(c, outcome) == [model |-> req[c].model, outcome |-> outcome]

\* no call of callOpenRouter has been made yet
NoCall == [model |-> 0, outcome |-> ""]

\* the slot of a generate request that has been answered after a last call
Answered(c, outcome, answer) ==
  [pc |-> "done", method |-> "POST", token |-> req[c].token,
   request |-> req[c].request, aborted |-> req[c].aborted,
   last |-> Called(c, outcome),
   status |-> answer.status, response |-> answer.response]

\* handleGenerate answers 400 before it reads the store
GenerateReject(c, request) ==
  /\ request.body # JsonNull
  /\ GenerateError(request.body) # ""
  /\ Reject(c, request, 400, GenerateError(request.body))

\* env.OPENROUTER_API_KEY is not set (613-618)
GenerateUnconfigured(c, request) ==
  /\ request.body # JsonNull
  /\ GenerateError(request.body) = ""
  /\ kv[request.body.token] # Unparseable
  /\ Reject(c, request, 500, "AI service not configured")

\* the keys of the two caches of specials; the key of a list is "list:" and
\* its token, which kv holds under the token alone
SpecialsKey == "catalog:specials"

RapidApiKey == "catalog:specials:rapidapi"

\* one hour, counted in steps of the clock
CACHE_DURATION == 1

\* cached && cached.timestamp && Date.now() - cached.timestamp < CACHE_DURATION
CacheFresh(cached, t) ==
  /\ Has(cached, "timestamp") /\ cached.timestamp # 0
  /\ t - cached.timestamp < CACHE_DURATION

\* the numbers of specials a call of getAllSpecials or getAllSpecialsRapidAPI
\* may return at time t: those of a fresh cache entry, else those fetched;
\* a store that holds no cache key is one whose cache is not looked at
SpecialsFrom(store, key, t) ==
  IF key \in DOMAIN store /\ CacheFresh(store[key], t)
    THEN {store[key].specials}
  ELSE 0..MaxSpecials

\* the store after such a call that returned the number specials: a fresh
\* entry is left alone, else kv.put writes the entry, unless it throws
StoresAfterSpecials(store, key, specials, t) ==
  IF key \in DOMAIN store /\ ~CacheFresh(store[key], t)
    THEN {store, [store EXCEPT ![key] = [specials |-> specials, timestamp |-> t]]}
  ELSE {store}

\* handleGenerate up to the first call of the upstream service: kv.get of the
\* list, then getAllSpecials when the body asks for it, its failure ignored
GenerateStart(c, request) ==
  /\ req[c].pc = "idle"
  /\ request.body # JsonNull
  /\ GenerateError(request.body) = ""
  /\ kv[request.body.token] # Unparseable
  /\ \/ /\ req' = [req EXCEPT ![c] =
             [pc |-> "models", method |-> "POST", token |-> request.body.token,
              request |-> request, model |-> 1, aborted |-> FALSE,
              last |-> NoCall, specials |-> 0]]
        /\ kv' = kv
     \/ /\ useSpecials(request.body)
        /\ \E specials \in SpecialsFrom(kv, SpecialsKey, now) :
             /\ req' = [req EXCEPT ![c] =
                  [pc |-> "models", method |-> "POST", token |-> request.body.token,
                   request |-> request, model |-> 1, aborted |-> FALSE,
                   last |-> NoCall, specials |-> specials]]
             /\ kv' \in StoresAfterSpecials(kv, SpecialsKey, specials, now)
  /\ UNCHANGED now

\* ways a call of one model fails: the statuses 402, 429 and any other one,
\* a rejected fetch, a 200 whose body response.json() rejects
Failures == {"402", "429", "500", "TypeError", "SyntaxError"}

\* mutant: a rate-limited model is called again after the wait
ModelFails_RetriesRateLimited(c) ==
  /\ req[c].pc = "models"
  /\ \E failure \in Failures \cup {"AbortError"} :
       /\ req[c].aborted <=> failure = "AbortError"
       /\ req' = [req EXCEPT ![c] =
            IF failure = "429"
              THEN [req[c] EXCEPT !.last = Called(c, failure)]
            ELSE IF req[c].model < NumModels
              THEN [req[c] EXCEPT !.model = @ + 1, !.last = Called(c, failure)]
            ELSE Answered(c, failure,
                          GenerateCatch([name |-> "Error",
                                         message |-> "All models failed"]))]
  /\ UNCHANGED <<kv, now>>

\* the call of the current model fails, or is aborted: every path of the loop
\* body continues with the next model (467-497); after the last model
\* generateWithFallbacks throws Error('All models failed') (500)
ModelFails(c) ==
  /\ req[c].pc = "models"
  /\ \E failure \in Failures \cup {"AbortError"} :
       /\ req[c].aborted <=> failure = "AbortError"
       /\ req' = [req EXCEPT ![c] =
            IF req[c].model < NumModels
              THEN [req[c] EXCEPT !.model = @ + 1, !.last = Called(c, failure)]
            ELSE Answered(c, failure,
                          GenerateCatch([name |-> "Error",
                                         message |-> "All models failed"]))]
  /\ UNCHANGED <<kv, now>>

\* the 30 s timer of generateWithFallbacks fires while a call is awaited (464)
GenerateTimeout(c) ==
  /\ req[c].pc = "models"
  /\ ~req[c].aborted
  /\ req' = [req EXCEPT ![c] = [req[c] EXCEPT !.aborted = TRUE]]
  /\ UNCHANGED <<kv, now>>

\* answers of the upstream service with status 200 and a JSON body
AiContents ==
  { [text |-> "sorry"],
    [json |-> [note |-> "none"]],
    [json |-> [items |-> <<>>]],
    [json |-> [items |-> <<[label |-> " rice ", tags |-> <<"coles">>]>>]],
    [json |-> [items |-> <<[label |-> "", tags |-> <<>>], [label |-> Label65]>>]],
    [json |-> [items |-> <<[label |-> "milk", tags |-> <<"ALDI store">>],
                           [tags |-> <<>>]>>]] }

AiData == { [nochoices |-> TRUE] } \cup { [content |-> text] : text \in AiContents }

\* variant of ModelAnswers that saves the suggestions as the list of the token
ModelAnswers_SavesSuggestions(c, data) ==
  /\ req[c].pc = "models"
  /\ ~req[c].aborted
  /\ \E priced \in BOOLEAN :
       LET answer == GenerateAnswer(data, req[c].request.body, req[c].specials,
                                    priced, now) IN
       /\ req' = [req EXCEPT ![c] = Answered(c, "200", answer)]
       /\ kv' = IF answer.status = 200
                 THEN [kv EXCEPT ![req[c].token] =
                         [title |-> "Shopping List",
                          items |-> answer.response.suggestions,
                          version |-> StoredVersion(@) + 1, updated_at |-> now]]
               ELSE kv
  /\ UNCHANGED now

\* the current model answers 200 before the timer fires: handleGenerate
\* answers the request, "without saving" (473-476, 642-675)
ModelAnswers(c, data) ==
  /\ req[c].pc = "models"
  /\ ~req[c].aborted
  /\ \E priced \in BOOLEAN :
       req' = [req EXCEPT ![c] =
         Answered(c, "200",
                  GenerateAnswer(data, req[c].request.body, req[c].specials,
                                 priced, now))]
  /\ UNCHANGED <<kv, now>>

GenerateBodies ==
  { NotJson,
    [token |-> "tok-0123456789abcdef"],
    [prompt |-> "  ", token |-> "tok-0123456789abcdef"],
    [prompt |-> "curry"],
    [prompt |-> "curry", token |-> ""],
    [prompt |-> "curry", token |-> "tok.0123456789abcdef"],
    [prompt |-> "curry", token |-> "tok-0123456789abcdef"],
    [prompt |-> "curry", token |-> "tok-0123456789abcdef", useSpecials |-> TRUE] }

GenerateRequests ==
  { [method |-> "POST", path |-> GeneratePath, body |-> b] : b \in GenerateBodies }

\* the list requests made while a generate request is in progress
ListRequests ==
  { [method |-> "PUT", path |-> ListPath, body |-> b] :
      b \in { [title |-> "List", items |-> <<>>],
              [title |-> "List",
               items |-> <<[id |-> "a", label |-> "milk", checked |-> FALSE]>>] } }
    \cup { [method |-> "DELETE", path |-> ListPath] }

NextGenerate ==
  \/ \E request \in GenerateRequests : GenerateReject("c1", request)
  \/ \E request \in GenerateRequests : GenerateUnconfigured("c1", request)
  \/ \E request \in GenerateRequests : GenerateStart("c1", request)
  \/ ModelFails("c1")
  \/ GenerateTimeout("c1")
  \/ \E data \in AiData : ModelAnswers("c1", data)
  \/ /\ req["c2"].pc = "idle"
     /\ \E request \in ListRequests : fetch("c2", request)
  \/ PutWrite("c2")
  \/ \E c \in Clients : Return(c)
  \/ (\A c \in Clients : req[c].pc = "idle") /\ Tick

SpecGenerate == Init /\ [][NextGenerate]_vars

\* The 30 s timer of generateWithFallbacks fires unless the loop has ended
\* (463-464), and a call made with an aborted signal is rejected.
FairModels ==
  \A c \in Clients :
    /\ WF_vars(GenerateTimeout(c))
    /\ WF_vars(req[c].pc = "models" /\ req[c].aborted /\ ModelFails(c))

SpecFallbacks == Init /\ [][NextGenerate]_vars /\ FairModels

----------------------------------------------------------------------------
(* fetch, worker.js 94-210: the routes before the list route *)

CORS_HEADERS ==
  ("Access-Control-Allow-Origin" :> "*")
    @@ ("Access-Control-Allow-Methods" :> "GET, PUT, POST, DELETE, OPTIONS")
    @@ ("Access-Control-Allow-Headers" :> "Content-Type")
    @@ ("Access-Control-Max-Age" :> "86400")

\* the headers jsonResponse sets (347-355)
JsonHeaders == ("Content-Type" :> "application/json") @@ CORS_HEADERS

\* the headers of the response serving the root page (111-117)
IndexHeaders ==
  ("Content-Type" :> "text/html; charset=utf-8") @@ ("Cache-Control" :> "no-store")

\* new Response('App not found', { status: 404 }) sets no header (118-121)
NoHeaders == << >>

\* "/" and "/index.html"
IndexPaths == { << >>, <<"index.html">> }

\* mutant: the preflight is only answered on the paths of the API
Options_OnlyApiPaths(c, request) ==
  IF Len(request.path) >= 1 /\ request.path[1] = "api"
    THEN /\ req[c].pc = "idle"
         /\ req' = [req EXCEPT ![c] =
              [pc |-> "done", method |-> request.method, request |-> request,
               status |-> 204, headers |-> CORS_HEADERS]]
         /\ UNCHANGED <<kv, now>>
    ELSE Reject(c, request, 404, "Invalid path")

\* 99-105: the CORS preflight, answered before the path is looked at
Options(c, request) ==
  /\ req[c].pc = "idle"
  /\ req' = [req EXCEPT ![c] =
       [pc |-> "done", method |-> request.method, request |-> request,
        status |-> 204, headers |-> CORS_HEADERS]]
  /\ UNCHANGED <<kv, now>>

\* 107-122: the root page from env.ASSETS, or 'App not found' when
\* env.ASSETS.fetch throws
Index(c, request) ==
  /\ req[c].pc = "idle"
  /\ \E found \in BOOLEAN :
       req' = [req EXCEPT ![c] =
         [pc |-> "done", method |-> request.method, request |-> request,
          status |-> IF found THEN 200 ELSE 404,
          headers |-> IF found THEN IndexHeaders ELSE NoHeaders]]
  /\ UNCHANGED <<kv, now>>

\* 124-127, 582-609: handleGenerate is awaited outside the try of fetch.  The
\* destructuring of a null body (590) throws a TypeError, JSON.parse of a
\* stored text that is not JSON (609) a SyntaxError: fetch rejects and the
\* request gets no response of the worker.
GenerateEscapes(c, request) ==
  /\ req[c].pc = "idle"
  /\ \E name \in {"TypeError", "SyntaxError"} :
       /\ name = "TypeError" <=> request.body = JsonNull
       /\ name = "SyntaxError" =>
            /\ GenerateError(request.body) = ""
            /\ kv[request.body.token] = Unparseable
       /\ req' = [req EXCEPT ![c] =
            [pc |-> "done", method |-> request.method, request |-> request,
             escaped |-> [name |-> name]]]
  /\ UNCHANGED <<kv, now>>

\* the list request makes handleGet or handlePut throw on the stored value
ListThrows(request) ==
  /\ PathToken(request.path) \in Tokens
  /\ Throws(kv[PathToken(request.path)])
  /\ \/ request.method = "GET"
     \/ /\ request.method = "PUT"
        /\ ValidStructure(request.body) /\ ItemsValid(request.body)

\* one request from its arrival to its first await, or to its response
Route(c, request) ==
  \/ /\ request.method = "OPTIONS"
     /\ Options(c, request)
  \/ /\ request.method # "OPTIONS"
     /\ request.path \in IndexPaths
     /\ Index(c, request)
  \/ /\ request.method = "POST"
     /\ request.path = GeneratePath
     /\ \/ GenerateReject(c, request)
        \/ GenerateUnconfigured(c, request)
        \/ GenerateStart(c, request)
        \/ GenerateEscapes(c, request)
  \/ /\ request.method # "OPTIONS"
     /\ request.path \notin IndexPaths
     /\ ~(request.method = "POST" /\ request.path = GeneratePath)
     /\ \/ ~ListThrows(request) /\ fetch(c, request)
        \/ ListThrows(request) /\ StoreError(c, PathToken(request.path), request)

RoutePaths ==
  IndexPaths \cup
    { ListPath, GeneratePath, <<"api", "invalid", "path">>,
      <<"api", "list", "tok.0123456789abcdef">> }

RouteMethods == {"OPTIONS", "GET", "PUT", "DELETE", "POST", "PATCH"}

RouteBodies ==
  { [title |-> "List", items |-> <<>>],
    [title |-> "List", items |-> <<[id |-> "a", label |-> "milk", checked |-> FALSE]>>],
    [title |-> "List", items |-> <<Primitive>>],
    NotJson }

\* the requests of the first client; the second one sends preflights and
\* reads the list
RouteRequests ==
  [c \in Clients |->
     IF c = "c1"
       THEN { [method |-> m, path |-> p] :
                m \in RouteMethods \ {"PUT", "POST"}, p \in RoutePaths }
            \cup { [method |-> "PUT", path |-> p, body |-> b] :
                     p \in RoutePaths, b \in RouteBodies }
            \cup { [method |-> "POST", path |-> p, body |-> NotJson] :
                     p \in RoutePaths \ {GeneratePath} }
            \cup { [method |-> "POST", path |-> GeneratePath, body |-> b] :
                     b \in GenerateBodies \cup {JsonNull} }
       ELSE { [method |-> "OPTIONS", path |-> p] : p \in RoutePaths }
            \cup { [method |-> "GET", path |-> ListPath] }]

\* the store was written by the worker or from outside of it
RouteStored ==
  { NoDoc, Unparseable, JsonNull,
    [title |-> "Old", items |-> <<StoredA>>, version |-> 1, updated_at |-> 1] }

InitRoutes ==
  /\ kv \in [Tokens -> RouteStored]
  /\ now = 1
  /\ req = [c \in Clients |-> Idle]

NextRoutes ==
  \/ \E c \in Clients :
       /\ req[c].pc = "idle"
       /\ \A d \in Clients : req[d].pc \notin {"read", "models"}
       /\ \E request \in RouteRequests[c] : Route(c, request)
  \/ \E c \in Clients : PutWrite(c)
  \/ \E c \in Clients : ModelFails(c)
  \/ \E c \in Clients : GenerateTimeout(c)
  \/ \E c \in Clients, data \in AiData : ModelAnswers(c, data)
  \/ \E c \in Clients : Return(c)
  \/ (\A c \in Clients : req[c].pc = "idle") /\ Tick

SpecRoutes == InitRoutes /\ [][NextRoutes]_vars

----------------------------------------------------------------------------
(* Polling clients after a lost update *)

\* a client polls the list
Poll(c) == \E tok \in Tokens : Get(c, tok)

\* a client sends the list it holds together with an item of its own that
\* the list lacks.  The PUTs that start on the first version of the list
\* may overlap; the later ones are handled one at a time.
Resubmit(c) ==
  \E tok \in Tokens :
    /\ StoredVersion(kv[tok]) < MaxVersion
    /\ \/ StoredVersion(kv[tok]) = 1
       \/ \A d \in Clients : req[d].pc # "read"
    /\ \E body \in AddBodies(c) : PutRead(c, tok, body)

NextConverge ==
  \/ \E c \in Clients : Resubmit(c)
  \/ \E c \in Clients : PutWrite(c)
  \/ \E c \in Clients : Poll(c)

\* Resubmit(c) can be taken: it always changes the slot of the client
CanResubmit(c) ==
  \E tok \in Tokens :
    /\ Ready(c)
    /\ AddBodies(c) # {}
    /\ StoredVersion(kv[tok]) < MaxVersion
    /\ \/ StoredVersion(kv[tok]) = 1
       \/ \A d \in Clients : req[d].pc # "read"

\* a request that was started is finished, a client keeps polling and
\* keeps sending what it has to send: weak fairness of the three steps,
\* the one of Resubmit written with its enabling condition
FairConverge ==
  \A c \in Clients :
    /\ WF_vars(PutWrite(c))
    /\ WF_vars(Poll(c))
    /\ ([]<>(~CanResubmit(c)) \/ []<><<Resubmit(c)>>_vars)

SpecConverge == InitShared /\ [][NextConverge]_vars /\ FairConverge

----------------------------------------------------------------------------
(* Two PUTs handled one after the other *)

\* The items of the bodies: two records for id "a" and one for id "b" with
\* a position and a timestamp, a record for "b" with a fractional position
\* and a timestamp that is not positive, a record for "c" without either.
PairItems ==
  { [id |-> "a", label |-> "milk", checked |-> FALSE, tags |-> <<>>,
     pos |-> 0, updated_at |-> 1],
    [id |-> "a", label |-> "eggs", checked |-> TRUE, tags |-> <<>>,
     pos |-> PosUnit, updated_at |-> 2],
    [id |-> "b", label |-> "milk", checked |-> FALSE, tags |-> <<>>,
     pos |-> PosUnit, updated_at |-> 1],
    [id |-> "b", label |-> "eggs", checked |-> TRUE, pos |-> 1, updated_at |-> 0],
    [id |-> "c", label |-> "rice", checked |-> FALSE] }

PairArrays == UNION {[1..n -> PairItems] : n \in 0..MaxItems}

Titles == {"List", "Groceries"}

\* the bodies of the first PUT
PairBodies ==
  { [title |-> "List", items |-> its] : its \in PairArrays }
    \cup { [title |-> "List", items |-> its, deletedItemIds |-> <<"", "a">>] :
             its \in PairArrays }

\* the bodies of the second PUT: the body of the first one again, under
\* either title, a body with one item, or a body that only deletes
SecondBodies(first) ==
  { [first EXCEPT !.title = title] : title \in Titles }
    \cup { [title |-> "Groceries", items |-> <<item>>] : item \in PairItems }
    \cup { [title |-> "Groceries", items |-> <<>>, deletedItemIds |-> ids] :
             ids \in { <<"">>, <<"", "c", "zz">>, <<"a", "b">> } }
    \cup { [title |-> "Groceries", items |-> <<>>] }

\* the lists stored before the first PUT: none, and the ones earlier PUTs
\* have written
PairStored ==
  { NoDoc }
    \cup { MergedDoc([title |-> "Old", items |-> its], createDefaultDocument(1), 1) :
             its \in { <<[id |-> "c", label |-> "rice", checked |-> FALSE]>>,
                       <<[id |-> "c", label |-> "rice", checked |-> FALSE],
                         [id |-> "a", label |-> "soy", checked |-> FALSE,
                          updated_at |-> 2],
                         [id |-> "b", label |-> "soy", checked |-> FALSE,
                          updated_at |-> 2]>> } }

InitPairs ==
  /\ kv \in [Tokens -> PairStored]
  /\ now = 1
  /\ req = [c \in Clients |-> Idle]

\* the first client sends a PUT on one of the stored lists while no request
\* is being handled
PutFirst ==
  /\ \A c \in Clients : req[c].pc = "idle"
  /\ \E tok \in Tokens :
       /\ kv[tok] \in PairStored
       /\ \E body \in PairBodies : PutRead("c1", tok, body)

\* the second client sends a PUT once the first one has been answered
PutSecond ==
  /\ req["c1"].pc = "done"
  /\ req["c2"].pc = "idle"
  /\ \E body \in SecondBodies(req["c1"].body) :
       PutRead("c2", req["c1"].token, body)

\* both clients have taken their responses
ReturnBoth ==
  /\ \A c \in Clients : req[c].pc = "done"
  /\ req' = [c \in Clients |-> Idle]
  /\ UNCHANGED <<kv, now>>

NextPairs ==
  \/ PutFirst
  \/ PutSecond
  \/ \E c \in Clients : PutWrite(c)
  \/ ReturnBoth
  \/ (\A c \in Clients : req[c].pc # "read") /\ Tick

SpecPairs == InitPairs /\ [][NextPairs]_vars

----------------------------------------------------------------------------
(* One store for the lists of two tokens and the two caches of specials *)

OtherToken == "tok_FEDCBA9876543210"

ListKeys == Tokens \cup {OtherToken}

Keys == ListKeys \cup {SpecialsKey, RapidApiKey}

\* a catalog request has been answered
CatalogAnswer(c, request, status, response) ==
  req' = [req EXCEPT ![c] =
    [pc |-> "done", method |-> request.method, request |-> request,
     status |-> status, response |-> response]]

\* handleGetSpecials, worker.js 695-718: getAllSpecials, or its kv.get throws
handleGetSpecials(c, request) ==
  /\ req[c].pc = "idle"
  /\ \/ \E specials \in SpecialsFrom(kv, SpecialsKey, now) :
          /\ kv' \in StoresAfterSpecials(kv, SpecialsKey, specials, now)
          /\ CatalogAnswer(c, request, 200,
               [status |-> "success", count |-> specials, cached |-> TRUE])
     \/ /\ kv' = kv
        /\ CatalogAnswer(c, request, 500, [error |-> "Failed to fetch specials"])
  /\ UNCHANGED now

\* handleGetSpecialsRapidAPI, worker.js 870-905
handleGetSpecialsRapidAPI(c, request) ==
  /\ req[c].pc = "idle"
  /\ \/ /\ kv' = kv
        /\ CatalogAnswer(c, request, 500, [error |-> "RapidAPI key not configured"])
     \/ \E specials \in SpecialsFrom(kv, RapidApiKey, now) :
          /\ kv' \in StoresAfterSpecials(kv, RapidApiKey, specials, now)
          /\ CatalogAnswer(c, request, 200,
               [status |-> "success", count |-> specials, source |-> "RapidAPI",
                cached |-> TRUE])
     \/ /\ kv' = kv
        /\ CatalogAnswer(c, request, 500,
             [error |-> "Failed to fetch specials from RapidAPI"])
  /\ UNCHANGED now

\* POST /api/clear-cache, worker.js 170-177
ClearCache(c, request) ==
  /\ req[c].pc = "idle"
  /\ \/ /\ kv' = [kv EXCEPT ![RapidApiKey] = NoDoc]
        /\ CatalogAnswer(c, request, 200,
             [status |-> "success", message |-> "Cache cleared"])
     \/ /\ kv' = kv
        /\ CatalogAnswer(c, request, 500, [error |-> "Failed to clear cache"])
  /\ UNCHANGED now

\* fetch, worker.js 129-178: the catalog routes that use the store
Catalog(c, request) ==
  \/ /\ request.method = "GET" /\ request.path = <<"api", "specials">>
     /\ handleGetSpecials(c, request)
  \/ /\ request.method = "GET" /\ request.path = <<"api", "specials-rapidapi">>
     /\ handleGetSpecialsRapidAPI(c, request)
  \/ /\ request.method = "POST" /\ request.path = <<"api", "clear-cache">>
     /\ ClearCache(c, request)

CatalogRequests ==
  { [method |-> "GET", path |-> <<"api", "specials">>],
    [method |-> "GET", path |-> <<"api", "specials-rapidapi">>],
    [method |-> "POST", path |-> <<"api", "clear-cache">>] }

\* the list requests of a client: the first one writes and reads the list
\* of either token, the second one deletes it
KeyListRequests ==
  [c \in Clients |->
     IF c = "c1"
       THEN { [method |-> "PUT", path |-> <<"api", "list", tok>>,
               body |-> [title |-> "List",
                         items |-> <<[id |-> "a", label |-> "milk",
                                      checked |-> FALSE]>>]] : tok \in ListKeys }
            \cup { [method |-> "GET", path |-> <<"api", "list", tok>>] :
                     tok \in ListKeys }
       ELSE { [method |-> "DELETE", path |-> <<"api", "list", tok>>] :
                tok \in ListKeys }]

KeyGenerateRequests ==
  { [method |-> "POST", path |-> GeneratePath,
     body |-> [prompt |-> "curry", token |-> tok, useSpecials |-> TRUE]] :
      tok \in ListKeys }
    \cup { [method |-> "POST", path |-> GeneratePath, body |-> [prompt |-> "curry"]] }

\* the answers of the upstream service: one without and one with suggestions
KeyAiData ==
  { [nochoices |-> TRUE],
    [content |-> [json |-> [items |-> <<[label |-> " rice ", tags |-> <<"coles">>]>>]]] }

\* the clock stands still: a cache entry stays fresh once it is written
InitKeys ==
  /\ kv = [k \in Keys |-> NoDoc]
  /\ now = 1
  /\ req = [c \in Clients |-> Idle]

NextKeys ==
  \/ \E c \in Clients :
       /\ req[c].pc = "idle"
       /\ \E request \in KeyListRequests[c] : fetch(c, request)
  \/ PutWrite("c1")
  \/ \E request \in KeyGenerateRequests : GenerateReject("c2", request)
  \/ \E request \in KeyGenerateRequests : GenerateUnconfigured("c2", request)
  \/ \E request \in KeyGenerateRequests : GenerateStart("c2", request)
  \/ ModelFails("c2")
  \/ GenerateTimeout("c2")
  \/ \E data \in KeyAiData : ModelAnswers("c2", data)
  \/ \E request \in CatalogRequests : Catalog("c2", request)
  \/ \E c \in Clients : Return(c)

SpecKeys == InitKeys /\ [][NextKeys]_vars

----------------------------------------------------------------------------
(* Vocabulary of the properties *)

\* the request of client c was a PUT that has been answered 200
PutDone(c) ==
  req[c].pc = "done" /\ req[c].method = "PUT" /\ req[c].status = 200

\* the PUT of c2 read what the PUT of c1 had written, and what the PUT of
\* c2 wrote is the document now stored
HandledAfter(c1, c2) ==
  /\ c1 # c2 /\ PutDone(c1) /\ PutDone(c2)
  /\ req[c1].token = req[c2].token
  /\ req[c2].existing = req[c1].response
  /\ kv[req[c2].token] = req[c2].response

\* the ids of the items of a body, and the ids it lists as deleted
SentIds(body) == {body.items[i].id : i \in 1..Len(body.items)}

ListedDeleted(body) ==
  IF Has(body, "deletedItemIds") THEN Range(body.deletedItemIds) ELSE {}

\* two records agree on everything but their position
SameItem(x, y) ==
  /\ x.id = y.id /\ x.label = y.label /\ x.checked = y.checked
  /\ x.tags = y.tags /\ x.updated_at = y.updated_at

ItemOf(items, id) == items[CHOOSE i \in 1..Len(items) : items[i].id = id]

\* the record a body carries for an id: the last item with that id, as the
\* normalizer reads it at the time t of the request
SentItem(body, id, t) ==
  normalizeItem(
    body.items[CHOOSE i \in 1..Len(body.items) :
                 /\ body.items[i].id = id
                 /\ \A j \in (i + 1)..Len(body.items) : body.items[j].id # id],
    0, t)

DistinctIds(items) ==
  \A i, j \in 1..Len(items) : items[i].id = items[j].id => i = j

DensePos(items) ==
  \A i \in 1..Len(items) : items[i].pos = (i - 1) * PosUnit

----------------------------------------------------------------------------
(* C1: after a successful PUT every item of the document that was stored, *)
(* whose id is neither in the items of the body nor listed as deleted, is *)
(* in the document now stored and returned, with the same label, checked, *)
(* tags and updated_at; with nothing listed as deleted the number of      *)
(* items does not go down.                                                *)
C1_OmittedItemsPreserved ==
  \A c \in Clients : PutDone(c) =>
    LET old == req[c].existing.items
        new == req[c].response.items
        body == req[c].body
    IN /\ kv[req[c].token] = req[c].response
       /\ \A i \in 1..Len(old) :
            old[i].id \notin SentIds(body) \cup ListedDeleted(body) =>
              \E k \in 1..Len(new) : SameItem(new[k], old[i])
       /\ ListedDeleted(body) \ {""} = {} => Len(new) >= Len(old)

C1_Witness ==
  \E c \in Clients :
    /\ PutDone(c)
    /\ req[c].body.items # <<>>
    /\ \E i \in 1..Len(req[c].existing.items) :
         req[c].existing.items[i].id
           \notin SentIds(req[c].body) \cup ListedDeleted(req[c].body)

(* C5: in one PUT, an id that is in the body and in the stored document   *)
(* and is not listed as deleted ends as the whole record of the body when *)
(* its updated_at is not smaller than the stored one (a tie goes to the   *)
(* body), and as the whole stored record otherwise.                       *)
C5_WholeRecordWins ==
  \A c \in Clients : PutDone(c) =>
    \A id \in (SentIds(req[c].body) \cap IdsOf(req[c].existing.items))
                \ ListedDeleted(req[c].body) :
      LET inc == SentItem(req[c].body, id, req[c].response.updated_at)
          old == ItemOf(req[c].existing.items, id)
      IN /\ id \in IdsOf(req[c].response.items)
         /\ IF inc.updated_at >= old.updated_at
              THEN SameItem(ItemOf(req[c].response.items, id), inc)
              ELSE SameItem(ItemOf(req[c].response.items, id), old)

\* a tie between two records that differ
C5_Witness ==
  \E c \in Clients :
    /\ PutDone(c)
    /\ \E id \in (SentIds(req[c].body) \cap IdsOf(req[c].existing.items))
                   \ ListedDeleted(req[c].body) :
         LET inc == SentItem(req[c].body, id, req[c].response.updated_at)
             old == ItemOf(req[c].existing.items, id)
         IN inc.updated_at = old.updated_at /\ inc.label # old.label

(* C6: no id listed in deletedItemIds is in the document a successful PUT *)
(* stores and returns, whether the id is in the body, in the stored       *)
(* document or in both, and whatever the timestamps are.                  *)
C6_DeletionWins ==
  \A c \in Clients : PutDone(c) =>
    \A id \in ListedDeleted(req[c].body) :
      /\ id \notin IdsOf(req[c].response.items)
      /\ id \notin IdsOf(kv[req[c].token].items)

\* the deleted id is in the body and stored, and the body has the newer record
C6_Witness ==
  \E c \in Clients :
    /\ PutDone(c)
    /\ \E id \in ListedDeleted(req[c].body) \cap SentIds(req[c].body)
                   \cap IdsOf(req[c].existing.items) :
         SentItem(req[c].body, id, req[c].response.updated_at).updated_at
           > ItemOf(req[c].existing.items, id).updated_at

(* C7: the items stored, and the items returned by a successful PUT, have *)
(* pairwise distinct ids and the positions 0..N-1 in the order of the     *)
(* list, whatever the body.                                               *)
C7_DistinctIdsDensePos ==
  /\ \A tok \in Tokens : kv[tok] # NoDoc =>
       DistinctIds(kv[tok].items) /\ DensePos(kv[tok].items)
  /\ \A c \in Clients : PutDone(c) =>
       DistinctIds(req[c].response.items) /\ DensePos(req[c].response.items)

\* the body repeats an id, leaves a pos out and has a fractional pos
C7_Witness ==
  \E c \in Clients :
    /\ PutDone(c)
    /\ Len(req[c].response.items) >= 2
    /\ \E i, j \in 1..Len(req[c].body.items) :
         /\ i < j
         /\ req[c].body.items[i].id = req[c].body.items[j].id
         /\ ~Has(req[c].body.items[i], "pos")
         /\ Has(req[c].body.items[j], "pos")
         /\ req[c].body.items[j].pos % PosUnit # 0

(* C8: when requests are handled one at a time, the write of a PUT stores *)
(* and returns the version stored before plus 1 (1 when nothing was       *)
(* stored), also when no item changes, and a PUT answered 400 does not    *)
(* touch the store.                                                       *)
C8_VersionStepsByOne ==
  [][\A c \in Clients :
       /\ (req[c].pc = "read" /\ req'[c].pc = "done") =>
            /\ kv'[req[c].token].version = StoredVersion(kv[req[c].token]) + 1
            /\ req'[c].response.version = kv'[req[c].token].version
       /\ (req[c].pc = "idle" /\ req'[c].pc = "done" /\ req'[c].status = 400) =>
            kv' = kv]_vars

\* a PUT that changed no item of a stored document
C8_Witness ==
  \E c \in Clients :
    /\ PutDone(c)
    /\ req[c].existing.version >= 1
    /\ req[c].response.items = req[c].existing.items
    /\ req[c].response.version = req[c].existing.version + 1
    /\ kv[req[c].token] = req[c].response

----------------------------------------------------------------------------
(* Properties of two clients *)

\* the body is the list `base` followed by one item with a new id, and
\* lists nothing as deleted
AddsOneTo(body, base) ==
  /\ Len(body.items) = Len(base) + 1
  /\ SubSeq(body.items, 1, Len(base)) = base
  /\ body.items[Len(body.items)].id \notin IdsOf(base)
  /\ ListedDeleted(body) = {}

\* two PUTs handled one after the other that both carry the id, with
\* different timestamps, and do not list it as deleted
BothCarry(c1, c2, id) ==
  /\ HandledAfter(c1, c2)
  /\ id \in SentIds(req[c1].body) \cap SentIds(req[c2].body)
  /\ id \notin ListedDeleted(req[c1].body) \cup ListedDeleted(req[c2].body)
  /\ SentItem(req[c1].body, id, req[c1].response.updated_at).updated_at
       # SentItem(req[c2].body, id, req[c2].response.updated_at).updated_at

\* of the records the two PUTs carry for the id, the one with the larger timestamp
LargerOfTheTwo(c1, c2, id) ==
  LET r1 == SentItem(req[c1].body, id, req[c1].response.updated_at)
      r2 == SentItem(req[c2].body, id, req[c2].response.updated_at)
  IN IF r1.updated_at > r2.updated_at THEN r1 ELSE r2

(* C2: two clients start from the same stored list and each sends it with *)
(* one new item of its own; after both PUTs, one handled after the other, *)
(* the stored document holds the original items and both new items.       *)
C2_BothAdditionsKept ==
  \A c1, c2 \in Clients :
    LET base == req[c1].existing.items
    IN (/\ HandledAfter(c1, c2)
        /\ AddsOneTo(req[c1].body, base)
        /\ AddsOneTo(req[c2].body, base)
        /\ req[c1].body.items[Len(base) + 1].id # req[c2].body.items[Len(base) + 1].id) =>
         LET final == kv[req[c2].token].items
             new1 == req[c1].body.items[Len(base) + 1]
             new2 == req[c2].body.items[Len(base) + 1]
         IN /\ kv[req[c2].token] = req[c2].response
            /\ \A i \in 1..Len(base) : \E k \in 1..Len(final) : SameItem(final[k], base[i])
            /\ \E k \in 1..Len(final) : SameItem(final[k], new1)
            /\ \E k \in 1..Len(final) : SameItem(final[k], new2)
            /\ Len(final) = Len(base) + 2

C2_Witness ==
  \E c1, c2 \in Clients :
    /\ HandledAfter(c1, c2)
    /\ req[c1].existing.items # <<>>
    /\ AddsOneTo(req[c1].body, req[c1].existing.items)
    /\ AddsOneTo(req[c2].body, req[c1].existing.items)
    /\ req[c1].body.items[Len(req[c1].body.items)].id
         # req[c2].body.items[Len(req[c2].body.items)].id

(* C3: once a PUT that lists an id as deleted has removed the item, a     *)
(* later PUT whose body still carries the item, without listing it as     *)
(* deleted, leaves the id absent from the stored document.                *)
C3_NoResurrection ==
  \A c1, c2 \in Clients : \A id \in Ids :
    (/\ HandledAfter(c1, c2)
     /\ id \in ListedDeleted(req[c1].body)
     /\ id \in IdsOf(req[c1].existing.items)
     /\ id \notin IdsOf(req[c1].response.items)
     /\ id \in SentIds(req[c2].body)
     /\ id \notin ListedDeleted(req[c2].body)) =>
       /\ id \notin IdsOf(req[c2].response.items)
       /\ id \notin IdsOf(kv[req[c2].token].items)

(* C4, as claimed: after two PUTs that both carry an id with different    *)
(* timestamps, handled in either order, the stored item is the record     *)
(* with the larger timestamp of the two.                                   *)
C4_LargerOfTheTwoWins ==
  \A c1, c2 \in Clients : \A id \in Ids :
    BothCarry(c1, c2, id) =>
      /\ id \in IdsOf(kv[req[c2].token].items)
      /\ SameItem(ItemOf(kv[req[c2].token].items, id), LargerOfTheTwo(c1, c2, id))

(* C4, amended: the stored item is the record with the larger timestamp   *)
(* of the two, in either order, unless the document stored before the two *)
(* PUTs held the id with a timestamp greater than both: then the stored   *)
(* record stays.                                                           *)
C4_LatestRecordWins ==
  \A c1, c2 \in Clients : \A id \in Ids :
    BothCarry(c1, c2, id) =>
      LET before == req[c1].existing.items
          larger == LargerOfTheTwo(c1, c2, id)
      IN /\ id \in IdsOf(kv[req[c2].token].items)
         /\ IF id \in IdsOf(before)
                 /\ ItemOf(before, id).updated_at > larger.updated_at
              THEN SameItem(ItemOf(kv[req[c2].token].items, id), ItemOf(before, id))
              ELSE SameItem(ItemOf(kv[req[c2].token].items, id), larger)

\* the PUT handled first carried the newer record and the second a stale one
C4_Witness ==
  \E c1, c2 \in Clients : \E id \in Ids :
    /\ BothCarry(c1, c2, id)
    /\ LargerOfTheTwo(c1, c2, id)
         = SentItem(req[c1].body, id, req[c1].response.updated_at)
    /\ id \in IdsOf(req[c1].existing.items)
    /\ ItemOf(req[c1].existing.items, id).updated_at
         < LargerOfTheTwo(c1, c2, id).updated_at
    /\ ~SameItem(SentItem(req[c2].body, id, req[c2].response.updated_at),
                 LargerOfTheTwo(c1, c2, id))

(* C9: every write of a PUT stores a version greater than the version     *)
(* stored immediately before the write, also when PUTs overlap.           *)
C9_VersionStrictlyIncreases ==
  [][\A c \in Clients :
       (req[c].pc = "read" /\ req'[c].pc = "done") =>
         kv'[req[c].token].version > StoredVersion(kv[req[c].token])]_vars

(* C10: the write of a PUT is a step of its own that stores, and answers  *)
(* 200 with, the document merged from the snapshot the PUT read earlier,  *)
(* whatever the store holds by then; so two overlapping PUTs that read    *)
(* the same snapshot can lose the item the earlier writer added.          *)
C10_WriteStoresOwnMerge ==
  [][\A c \in Clients :
       (req[c].pc = "read" /\ req'[c].pc = "done") =>
         /\ kv'[req[c].token] = req[c].merged
         /\ req[c].merged.version = req[c].existing.version + 1
         /\ req'[c].status = 200
         /\ req'[c].response = req[c].merged]_vars

\* both read the same snapshot, both were answered 200, and the item the
\* earlier writer added is not in the store
C10_Witness ==
  \E c1, c2 \in Clients :
    /\ c1 # c2 /\ PutDone(c1) /\ PutDone(c2)
    /\ req[c1].token = req[c2].token
    /\ req[c1].existing = req[c2].existing
    /\ kv[req[c2].token] = req[c2].response
    /\ \E id \in IdsOf(req[c1].response.items) \ IdsOf(req[c1].existing.items) :
         id \notin IdsOf(kv[req[c2].token].items)

----------------------------------------------------------------------------
(* Properties of the requests of the list API *)

\* a request of c has arrived in this step
Arrives(c) == req[c].pc = "idle" /\ req'[c].pc # "idle"

\* some item of the array fails normalization
SomeItemFails(items) ==
  \E i \in 1..Len(items) : normalizeError(items[i]) # ""

(* C11: a PUT whose items hold a record that fails normalization, at any  *)
(* index, is answered 400 in the step it arrives: nothing is stored, so   *)
(* the document and its version stay and no valid item of it is merged.   *)
C11_BadItemRejectsWhole ==
  [][\A c \in Clients :
       (/\ Arrives(c)
        /\ req'[c].method = "PUT" /\ Has(req'[c], "body")
        /\ ValidStructure(req'[c].body)
        /\ SomeItemFails(req'[c].body.items)) =>
          /\ req'[c].pc = "done"
          /\ req'[c].status = 400
          /\ kv' = kv]_vars

\* the bad record comes after a valid one, and a document is stored
C11_Witness ==
  \E c \in Clients :
    /\ req[c].pc = "done" /\ req[c].method = "PUT" /\ req[c].status = 400
    /\ Has(req[c], "body") /\ ValidStructure(req[c].body)
    /\ Len(req[c].body.items) = 2
    /\ normalizeError(req[c].body.items[1]) = ""
    /\ normalizeError(req[c].body.items[2]) # ""
    /\ kv[req[c].token] # NoDoc

(* C12: a request with a malformed path is answered 404, one with a token *)
(* that is too short or has another character 400, a PUT body that is not *)
(* JSON 400 and a PUT body without a string title or an items array 400;  *)
(* each in the step it arrives, with no read of the store and the store   *)
(* unchanged.                                                              *)
C12_RejectedBeforeStore ==
  [][\A c \in Clients : Arrives(c) =>
       /\ (/\ Has(req'[c], "request")
           /\ req'[c].request.path \in
                { <<"api", "list">>, <<"api", "list", "">>, <<"api", "invalid", "path">>,
                  <<"api", "list", "tok-0123456789abcdef", "items">> }) =>
            req'[c].status = 404 /\ req'[c].response = [error |-> "Invalid path"]
       /\ (/\ Has(req'[c], "request")
           /\ req'[c].request.path \in
                { <<"api", "list", "tok-0123456789a">>,
                  <<"api", "list", "tok.0123456789abcdef">> }) =>
            req'[c].status = 400 /\ req'[c].response = [error |-> "Invalid token format"]
       /\ (/\ Has(req'[c], "request")
           /\ req'[c].request.path = <<"api", "list", "tok-0123456789abcdef">>
           /\ req'[c].request.method = "PUT") =>
            /\ req'[c].request.body = NotJson
            /\ req'[c].status = 400 /\ req'[c].response = [error |-> "Invalid JSON"]
       /\ (Has(req'[c], "body") /\ ~ValidStructure(req'[c].body)) =>
            /\ req'[c].status = 400
            /\ req'[c].response = [error |-> "Invalid document structure"]
       /\ (Has(req'[c], "request") \/ (Has(req'[c], "body") /\ ~ValidStructure(req'[c].body))) =>
            /\ req'[c].pc = "done"
            /\ ~Has(req'[c], "existing")
            /\ kv' = kv
       /\ Has(req'[c], "token") => req'[c].token = "tok-0123456789abcdef"]_vars

\* a PUT with a bad token was refused while a document is stored
C12_Witness ==
  \E c \in Clients :
    /\ req[c].pc = "done" /\ Has(req[c], "request")
    /\ req[c].request.method = "PUT"
    /\ req[c].response = [error |-> "Invalid token format"]
    /\ \E tok \in Tokens : kv[tok] # NoDoc /\ kv[tok].items # <<>>

C14_GetLeavesStore ==
  [][\A c \in Clients :
       (Arrives(c) /\ req'[c].method = "GET" /\ Has(req'[c], "token")) =>
         /\ kv' = kv
         /\ req'[c].status = 200
         /\ kv[req'[c].token] = NoDoc =>
              /\ req'[c].response.title = "Shopping"
              /\ req'[c].response.items = <<>>
              /\ req'[c].response.version = 0
              /\ kv'[req'[c].token] = NoDoc]_vars

\* two GETs of a missing list: the second one found nothing stored either
C14_Witness ==
  /\ \A c \in Clients :
       /\ req[c].pc = "done" /\ req[c].method = "GET" /\ Has(req[c], "token")
       /\ req[c].response.version = 0
  /\ \A tok \in Tokens : kv[tok] = NoDoc

(* C15: a DELETE on a valid token answers 200 {ok: true} and leaves       *)
(* nothing stored, whether a document was stored or not; a GET handled    *)
(* while nothing has been stored since answers the default document with  *)
(* version 0 and no items.                                                 *)
C15_DeleteThenGetIsDefault ==
  [][\A c \in Clients :
       /\ (Arrives(c) /\ req'[c].method = "DELETE" /\ Has(req'[c], "token")) =>
            /\ req'[c].pc = "done" /\ req'[c].status = 200
            /\ req'[c].response = [ok |-> TRUE]
            /\ kv'[req'[c].token] = NoDoc
       /\ \A d \in Clients :
            (/\ req[d].pc = "done" /\ req[d].method = "DELETE" /\ Has(req[d], "token")
             /\ kv[req[d].token] = NoDoc
             /\ Arrives(c) /\ req'[c].method = "GET"
             /\ Has(req'[c], "token") /\ req'[c].token = req[d].token) =>
               /\ req'[c].status = 200
               /\ req'[c].response.version = 0
               /\ req'[c].response.items = <<>>
               /\ req'[c].response.title = "Shopping"]_vars

\* a PUT stored items, the other client deleted the list and then read it
C15_Witness ==
  \E c, d \in Clients :
    /\ c # d /\ PutDone(d) /\ req[d].response.items # <<>>
    /\ kv[req[d].token] = NoDoc
    /\ req[c].pc = "done" /\ req[c].method = "GET" /\ Has(req[c], "token")
    /\ req[c].status = 200
    /\ req[c].response.version = 0 /\ req[c].response.items = <<>>

\* the body without the baseVersion the client sent
WithoutBaseVersion(body) ==
  [f \in DOMAIN body \ {"baseVersion"} |-> body[f]]

(* C16: a PUT with a valid structure and valid items is answered 200      *)
(* whatever the stored version and the baseVersion of the body, and the   *)
(* merged items and the version are those of the same body without a      *)
(* baseVersion.                                                            *)
C16_NeverRejectedAsStale ==
  \A c \in Clients :
    (/\ req[c].pc \in {"read", "done"} /\ req[c].method = "PUT"
     /\ Has(req[c], "body")
     /\ ValidStructure(req[c].body) /\ ~SomeItemFails(req[c].body.items)) =>
       /\ req[c].pc = "done" => req[c].status = 200
       /\ LET doc == IF req[c].pc = "read" THEN req[c].merged ELSE req[c].response
          IN /\ doc = MergedDoc(WithoutBaseVersion(req[c].body), req[c].existing,
                                doc.updated_at)
             /\ doc.version = req[c].existing.version + 1

\* a body whose baseVersion is behind the stored version was merged
C16_Witness ==
  \E c \in Clients :
    /\ PutDone(c)
    /\ Has(req[c].body, "baseVersion")
    /\ req[c].body.baseVersion < req[c].existing.version
    /\ req[c].response.items # req[c].existing.items

----------------------------------------------------------------------------
(* Properties of a store that holds corrupted values *)

(* C17: when the stored value does not parse into a document object, a    *)
(* GET answers 200 with the default document and a PUT with a valid body  *)
(* goes on to merge the body with an empty base at version 1.             *)
C17_CorruptedReadsAsMissing ==
  [][\A c \in Clients :
       (/\ Arrives(c) /\ Has(req'[c], "token")
        /\ Throws(kv[req'[c].token])) =>
          /\ req'[c].method = "GET" =>
               /\ req'[c].status = 200
               /\ req'[c].response = createDefaultDocument(now)
          /\ (/\ req'[c].method = "PUT"
              /\ ValidStructure(req'[c].request.body)
              /\ ItemsValid(req'[c].request.body)) =>
               /\ req'[c].pc = "read"
               /\ req'[c].merged =
                    MergedDoc(req'[c].body, createDefaultDocument(now), now)
               /\ req'[c].merged.version = 1]_vars

(* C18: a PUT on a stored document with items that fail normalization is  *)
(* answered 200, and every stored item that passes normalization, before  *)
(* or after a failing one, has its id in the result unless the id is      *)
(* listed as deleted.                                                      *)
C18_ValidStoredItemsKept ==
  \A c \in Clients :
    (PutDone(c) /\ SomeItemFails(req[c].existing.items)) =>
      \A i \in 1..Len(req[c].existing.items) :
        (/\ normalizeError(req[c].existing.items[i]) = ""
         /\ req[c].existing.items[i].id \notin ListedDeleted(req[c].body)) =>
           req[c].existing.items[i].id \in IdsOf(req[c].response.items)

----------------------------------------------------------------------------
(* Properties of POST /api/generate *)

\* a generate request of client c has been answered
GenerateDone(c) ==
  /\ req[c].pc = "done"
  /\ req[c].method = "POST"

C20_TimeoutAnswers504 ==
  \A c \in Clients :
    (GenerateDone(c) /\ Has(req[c], "aborted") /\ req[c].aborted) =>
      req[c].status = 504

----------------------------------------------------------------------------
(* Properties of the routes of fetch *)

\* the headers of the response in the slot: the ones the route set itself,
\* else the ones of jsonResponse, which builds every other response
ResponseHeaders(slot) ==
  IF Has(slot, "headers") THEN slot.headers ELSE JsonHeaders

(* C21: every request that has been handled has a response of the worker, *)
(* and a GET or a generate request that met a stored value which cannot   *)
(* be parsed, or a generate request with a null body, is answered with a  *)
(* status of the 500 class: no exception leaves fetch.                     *)
C21_FailuresAnswered500 ==
  \A c \in Clients :
    req[c].pc = "done" =>
      /\ Has(req[c], "status")
      /\ (/\ req[c].method = "POST"
          /\ req[c].request.path = GeneratePath
          /\ req[c].request.body = JsonNull) => req[c].status >= 500
      /\ (/\ Has(req[c], "token")
          /\ \/ req[c].method = "GET" /\ Throws(kv[req[c].token])
             \/ req[c].method = "POST" /\ kv[req[c].token] = Unparseable) =>
           req[c].status >= 500

(* C22: on a list path with a valid token a method other than GET, PUT,   *)
(* DELETE and OPTIONS is answered 405, and OPTIONS is answered 204 on     *)
(* every path; both in the step the request arrives, without a read of    *)
(* the store and with the store unchanged.                                 *)
C22_MethodNotAllowedAndPreflight ==
  [][\A c \in Clients :
       (Arrives(c) /\ Has(req'[c], "request")) =>
         /\ req'[c].request.method = "OPTIONS" =>
              /\ req'[c].pc = "done"
              /\ req'[c].status = 204
              /\ ~Has(req'[c], "existing")
              /\ kv' = kv
         /\ (/\ req'[c].request.path = ListPath
             /\ req'[c].request.method \notin {"GET", "PUT", "DELETE", "OPTIONS"}) =>
              /\ req'[c].pc = "done"
              /\ req'[c].status = 405
              /\ req'[c].response = [error |-> "Method not allowed"]
              /\ ~Has(req'[c], "existing")
              /\ kv' = kv]_vars

\* a POST on the list was answered 405 and a preflight on the root path 204
\* while the list is stored
C22_Witness ==
  /\ req["c1"].pc = "done" /\ Has(req["c1"], "request")
  /\ req["c1"].request.method \in {"POST", "PATCH"}
  /\ req["c1"].request.path = ListPath
  /\ req["c1"].status = 405
  /\ req["c2"].pc = "done" /\ Has(req["c2"], "request")
  /\ req["c2"].request.method = "OPTIONS"
  /\ req["c2"].request.path \in IndexPaths
  /\ req["c2"].status = 204
  /\ \A tok \in Tokens : Has(kv[tok], "items")

(* C23: every response of the worker carries the header                   *)
(* Access-Control-Allow-Origin with the value "*".                         *)
C23_EveryResponseHasCors ==
  \A c \in Clients :
    (req[c].pc = "done" /\ Has(req[c], "status")) =>
      /\ "Access-Control-Allow-Origin" \in DOMAIN ResponseHeaders(req[c])
      /\ ResponseHeaders(req[c])["Access-Control-Allow-Origin"] = "*"

----------------------------------------------------------------------------
(* Properties of the polling clients *)

\* the ids the clients have added
AddedIds == UNION {OwnIds(c) : c \in Clients}

\* an item that a client added, and was answered with, is not stored
LostUpdate ==
  \E c \in Clients, tok \in Tokens :
    /\ req[c].pc = "done" /\ req[c].method = "PUT" /\ req[c].status = 200
    /\ \E id \in OwnIds(c) :
         /\ id \in IdsOf(req[c].response.items)
         /\ id \notin IdsOf(kv[tok].items)

Converged == \A tok \in Tokens : AddedIds \subseteq IdsOf(kv[tok].items)

(* C24: after overlapping PUTs have lost an added item, clients that keep *)
(* polling and send again the items they added, in PUTs handled one at a  *)
(* time, lead to a stored document with every added item.                 *)
C24_ConvergesAfterLostUpdate == LostUpdate ~> Converged

\* the item of one client is lost while the other client's is stored
C24_Witness ==
  /\ LostUpdate
  /\ \A d \in Clients : req[d].pc = "done" /\ req[d].method = "PUT"
  /\ \E tok \in Tokens : kv[tok].version = 2

----------------------------------------------------------------------------
(* Properties of two PUTs handled one after the other *)

\* every item of the body carries a pos and an updated_at above 0
FullyStamped(body) ==
  \A i \in 1..Len(body.items) :
    /\ Has(body.items[i], "pos")
    /\ Has(body.items[i], "updated_at") /\ body.items[i].updated_at > 0

\* the PUT of c2 was handled right after the PUT of c1 and had the same body
SentTwice(c1, c2) ==
  /\ HandledAfter(c1, c2)
  /\ req[c1].body = req[c2].body
  /\ FullyStamped(req[c1].body)

\* the two lists hold the same records, whatever their order and pos
SameRecords(xs, ys) ==
  /\ Len(xs) = Len(ys)
  /\ \A i \in 1..Len(xs) : \E k \in 1..Len(ys) : SameItem(xs[i], ys[k])

\* every item of the list is the record the body carries for its id
AllFromBody(items, body, t) ==
  \A i \in 1..Len(items) :
    /\ items[i].id \in SentIds(body)
    /\ SameItem(items[i], SentItem(body, items[i].id, t))

(* C25, as stated: the same payload handled twice in a row leaves the     *)
(* title and the items, with their order and pos, as after the first PUT. *)
C25_ResendKeepsItemsAndOrder ==
  \A c1, c2 \in Clients :
    SentTwice(c1, c2) =>
      /\ req[c2].response.title = req[c1].response.title
      /\ req[c2].response.items = req[c1].response.items

(* C25, amended: the same payload handled twice in a row leaves the title *)
(* and the records of the items (id, label, checked, tags, updated_at) as *)
(* after the first PUT; their order and pos are also the same when every  *)
(* record of the first result is the record of the payload.               *)
C25_ResendKeepsRecords ==
  \A c1, c2 \in Clients :
    SentTwice(c1, c2) =>
      /\ req[c2].response.title = req[c1].response.title
      /\ SameRecords(req[c1].response.items, req[c2].response.items)
      /\ AllFromBody(req[c1].response.items, req[c1].body, now) =>
           req[c2].response.items = req[c1].response.items

\* a payload of two items was sent twice to a list with an item it omits
C25_Witness ==
  \E c1, c2 \in Clients :
    /\ SentTwice(c1, c2)
    /\ Len(req[c1].body.items) = 2
    /\ \E i \in 1..Len(req[c1].existing.items) :
         req[c1].existing.items[i].id \notin SentIds(req[c1].body)
    /\ req[c2].response.items # req[c1].response.items

\* the records of a PUT in the order they are pushed: for the ids of the
\* payload in payload order, then the stored items the payload omits
Pushed(c) ==
  LET t == req[c].response.updated_at
      deleted == DeletedSet(req[c].body)
      incoming == IncomingItems(req[c].body, t)
      existing == ExistingItems(req[c].existing, t)
  IN ResolveIncoming(incoming, existing, deleted)
       \o PreserveExisting(incoming, existing, deleted)

\* the index in the result of the record with the id
PlaceOf(items, id) == CHOOSE i \in 1..Len(items) : items[i].id = id

(* C26: the result of a PUT lists the surviving records by ascending pos  *)
(* as they had it before renumbering; records with equal pos stay in the  *)
(* order they were pushed, the ones for the ids of the payload in payload *)
(* order before the preserved stored ones in stored order; a new item     *)
(* sent with the pos of a stored item the payload omits comes before it.  *)
C26_SortedByPosStable ==
  \A c \in Clients : PutDone(c) =>
    LET pushed == Pushed(c)
        result == req[c].response.items
    IN /\ Len(result) = Len(pushed)
       /\ \A i, j \in 1..Len(pushed) :
            (\/ pushed[i].pos < pushed[j].pos
             \/ (pushed[i].pos = pushed[j].pos /\ i < j)) =>
              PlaceOf(result, pushed[i].id) < PlaceOf(result, pushed[j].id)
       /\ \A id \in SentIds(req[c].body)
                    \ (IdsOf(req[c].existing.items) \cup ListedDeleted(req[c].body)),
             k \in 1..Len(req[c].existing.items) :
            (/\ req[c].existing.items[k].id
                  \notin SentIds(req[c].body) \cup ListedDeleted(req[c].body)
             /\ SentItem(req[c].body, id, now).pos = req[c].existing.items[k].pos) =>
              PlaceOf(result, id) < PlaceOf(result, req[c].existing.items[k].id)

\* a new item was sent with the pos of a stored item the payload omits, and
\* it is placed before that item
C26_Witness ==
  \E c \in Clients :
    /\ PutDone(c)
    /\ \E i \in 1..Len(req[c].body.items), k \in 1..Len(req[c].existing.items) :
         /\ Has(req[c].body.items[i], "pos")
         /\ req[c].body.items[i].id \notin IdsOf(req[c].existing.items)
         /\ req[c].existing.items[k].id \notin SentIds(req[c].body)
         /\ req[c].existing.items[k].id \notin ListedDeleted(req[c].body)
         /\ req[c].body.items[i].pos = req[c].existing.items[k].pos
         /\ PlaceOf(req[c].response.items, req[c].body.items[i].id)
              < PlaceOf(req[c].response.items, req[c].existing.items[k].id)

\* the ids of the items stored under the token
StoredIds(stored) == IF Has(stored, "items") THEN IdsOf(stored.items) ELSE {}

(* C27: from one PUT to the next, handled one at a time, the stored       *)
(* updated_at of an id that stays in the stored document never decreases. *)
C27_ItemTimestampNeverDecreases ==
  [][\A tok \in Tokens :
       \A id \in StoredIds(kv[tok]) \cap StoredIds(kv'[tok]) :
         ItemOf(kv'[tok].items, id).updated_at >= ItemOf(kv[tok].items, id).updated_at]_vars

\* a PUT carried an older record for a stored id and the stored one stayed
C27_Witness ==
  \E c \in Clients :
    /\ PutDone(c)
    /\ \E id \in SentIds(req[c].body) \cap IdsOf(req[c].existing.items) :
         /\ id \notin ListedDeleted(req[c].body)
         /\ SentItem(req[c].body, id, now).updated_at
              < ItemOf(req[c].existing.items, id).updated_at
         /\ ItemOf(req[c].response.items, id).updated_at
              = ItemOf(req[c].existing.items, id).updated_at

----------------------------------------------------------------------------
(* Further properties of a PUT handled on its own *)

(* C28: a PUT with a title and an empty items array is accepted, with or  *)
(* without deletedItemIds; the document it builds and stores holds the    *)
(* stored items whose ids are not listed, unchanged, and nothing else:    *)
(* empty entries and listed ids that are not stored have no effect.       *)
C28_PureDeletion ==
  [][\A c \in Clients :
       /\ (/\ Arrives(c)
           /\ req'[c].method = "PUT" /\ Has(req'[c], "body")
           /\ Has(req'[c].body, "title") /\ Has(req'[c].body, "items")
           /\ req'[c].body.items = <<>>) =>
            /\ req'[c].pc = "read"
            /\ IdsOf(req'[c].merged.items)
                 = IdsOf(req'[c].existing.items) \ ListedDeleted(req'[c].body)
            /\ \A i \in 1..Len(req'[c].merged.items) :
                 SameItem(req'[c].merged.items[i],
                          ItemOf(req'[c].existing.items, req'[c].merged.items[i].id))
       /\ (req[c].pc = "read" /\ req'[c].pc = "done") =>
            /\ req'[c].status = 200
            /\ kv'[req[c].token] = req[c].merged]_vars

\* a PUT without items removed the listed item "a" and kept the other one
C28_Witness ==
  \E c \in Clients :
    /\ PutDone(c)
    /\ req[c].body.items = <<>>
    /\ "" \in ListedDeleted(req[c].body)
    /\ IdsOf(req[c].existing.items) = {"a", "b"}
    /\ IdsOf(req[c].response.items) = {"b"}

----------------------------------------------------------------------------
(* Further properties of two PUTs handled one after the other *)

(* C29: the write of every PUT stores and answers the title of its own    *)
(* body, whatever title is stored and whichever records win the merge.    *)
C29_TitleFollowsLastPut ==
  [][\A c \in Clients :
       (req[c].pc = "read" /\ req'[c].pc = "done") =>
         /\ kv'[req[c].token].title = req[c].body.title
         /\ req'[c].response.title = req[c].body.title]_vars

\* a PUT under another title whose items all lost to newer stored records
C29_Witness ==
  \E c \in Clients :
    /\ PutDone(c)
    /\ req[c].body.items # <<>>
    /\ req[c].existing.title # req[c].body.title
    /\ \A id \in SentIds(req[c].body) :
         /\ id \in IdsOf(req[c].existing.items)
         /\ SentItem(req[c].body, id, now).updated_at
              < ItemOf(req[c].existing.items, id).updated_at
         /\ SameItem(ItemOf(req[c].response.items, id),
                     ItemOf(req[c].existing.items, id))
    /\ kv[req[c].token].title = req[c].body.title

\* the record a body carries for an id as it was sent: its last item with it
RawSent(body, id) ==
  body.items[CHOOSE i \in 1..Len(body.items) :
               /\ body.items[i].id = id
               /\ \A j \in (i + 1)..Len(body.items) : body.items[j].id # id]

\* an updated_at that is a number above zero
ValidStamp(item) == Has(item, "updated_at") /\ item.updated_at > 0

\* the records a PUT has for an id: the one sent and the one stored
Carried(body, existingDoc, id) ==
  {RawSent(body, id) : k \in {1 : z \in {id} \cap SentIds(body)}}
    \cup {ItemOf(existingDoc.items, id) :
            k \in {1 : z \in {id} \cap IdsOf(existingDoc.items)}}

\* the timestamp a record counts with in a request handled at time t
StampAt(item, t) == IF ValidStamp(item) THEN item.updated_at ELSE t

(* C30: the write of a PUT stores for every item the greatest timestamp   *)
(* of the records sent and stored for its id, each counted with its own   *)
(* updated_at when that is a number above zero and with the time of the   *)
(* request otherwise: a valid updated_at of the winning record is stored  *)
(* as it is, the time of the request is stored only for a record without  *)
(* a valid one, and a stored item that was not sent keeps its updated_at. *)
C30_ValidTimestampKept ==
  [][\A c \in Clients :
       (req[c].pc = "read" /\ req'[c].pc = "done") =>
         LET doc == kv'[req[c].token]
             t   == doc.updated_at
         IN \A i \in 1..Len(doc.items) :
              LET recs == Carried(req[c].body, req[c].existing, doc.items[i].id)
              IN /\ recs # {}
                 /\ \E w \in recs :
                      /\ doc.items[i].updated_at = StampAt(w, t)
                      /\ \A x \in recs : StampAt(x, t) <= StampAt(w, t)
                 /\ doc.items[i].id \notin SentIds(req[c].body) =>
                      doc.items[i].updated_at
                        = ItemOf(req[c].existing.items, doc.items[i].id).updated_at]_vars

\* a PUT that stored a sent timestamp older than the request, stamped a
\* sent record that had none, and kept the older timestamp of a stored item
C30_Witness ==
  \E c \in Clients :
    /\ PutDone(c)
    /\ \E x, y, z \in IdsOf(req[c].response.items) :
         /\ x \in SentIds(req[c].body)
         /\ ValidStamp(RawSent(req[c].body, x))
         /\ ItemOf(req[c].response.items, x).updated_at
              = RawSent(req[c].body, x).updated_at
         /\ RawSent(req[c].body, x).updated_at < req[c].response.updated_at
         /\ y \in SentIds(req[c].body)
         /\ ~ValidStamp(RawSent(req[c].body, y))
         /\ ItemOf(req[c].response.items, y).updated_at = req[c].response.updated_at
         /\ z \notin SentIds(req[c].body)
         /\ z \in IdsOf(req[c].existing.items)
         /\ ItemOf(req[c].response.items, z).updated_at
              = ItemOf(req[c].existing.items, z).updated_at
         /\ ItemOf(req[c].existing.items, z).updated_at < req[c].response.updated_at

----------------------------------------------------------------------------
(* The keys of the store *)

(* C31: the list stored under a token changes only in a step of a PUT or  *)
(* a DELETE for that token: no list request for another token, no         *)
(* /api/generate request and no catalog request changes it; and a GET or  *)
(* a PUT reads the list stored under its own token.                       *)
C31_TokensIndependent ==
  [][/\ \A k \in ListKeys :
          kv'[k] # kv[k] =>
            \E c \in Clients :
              /\ req'[c] # req[c]
              /\ Has(req'[c], "token") /\ req'[c].token = k
              /\ req'[c].method \in {"PUT", "DELETE"}
     /\ \A c \in Clients :
          (Arrives(c) /\ Has(req'[c], "token")) =>
            /\ (req'[c].method = "GET" /\ req'[c].status = 200) =>
                 req'[c].response = ExistingDoc(kv[req'[c].token], now)
            /\ (req'[c].method = "PUT" /\ req'[c].pc = "read") =>
                 req'[c].existing = ExistingDoc(kv[req'[c].token], now)]_vars

\* the list of one token has been deleted after a PUT for the other token
\* had read its list; the other token holds what that PUT wrote, and the
\* cache of specials is filled
C31_Witness ==
  \E k \in ListKeys : \E j \in ListKeys \ {k} :
    /\ req["c2"].pc = "done" /\ req["c2"].method = "DELETE" /\ req["c2"].token = k
    /\ kv[k] = NoDoc
    /\ PutDone("c1") /\ req["c1"].token = j
    /\ req["c1"].existing.version = 1
    /\ kv[j] = req["c1"].response
    /\ kv[SpecialsKey] # NoDoc
----------------------------------------------------------------------------
(* The loop of generateWithFallbacks *)

\* a call of callOpenRouter settles in this step
CallSettles(c) == req[c].pc = "models" /\ req'[c] # req[c] /\ req'[c].last # req[c].last

\* the response of the call had the status 200: its body was returned, or
\* response.json() rejected it
Got200(outcome) == outcome \in {"200", "SyntaxError"}

\* the models are called in the order of the list, each once
CalledInOrder(c) ==
  /\ (req[c].pc # "models" /\ req'[c].pc = "models") =>
       req'[c].model = 1 /\ req'[c].last = NoCall
  /\ CallSettles(c) =>
       /\ req'[c].last.model = req[c].model
       /\ req[c].last.model = req[c].model - 1
       /\ req[c].model \in 1..NumModels

\* a call that did not return data is followed by the call of the next model,
\* and after the last model by the error 'All models failed'
FailureGoesOn(c) ==
  IF req[c].model < NumModels
    THEN req'[c].pc = "models" /\ req'[c].model = req[c].model + 1
  ELSE /\ req'[c].pc = "done"
       /\ req'[c].status = 500
       /\ req'[c].response.details = "All models failed"

====
